---- MODULE Spec2Model ----
(***************************************************************************)
(* A model of the 16-bit x86 emulator core (rs-x86emu).                    *)
(*                                                                         *)
(* The CPU struct of src/src/cpu/cpu.rs is the record held by the variable *)
(* cpu.  Every method of the CPU that the properties below need is an      *)
(* operator from a CPU record to a CPU record, written after the method's  *)
(* body; the host-facing entry points (execute_instruction, execute_frame, *)
(* Machine::execute_instructions, the resets) are the actions.             *)
(*                                                                         *)
(* Conventions                                                             *)
(*  - u16 values are integers in 0..65535, u8 values in 0..255.            *)
(*  - usize values returned by read_parameter_value are kept modulo        *)
(*    USizeMod; every use in the code looks at the low 16 or 17 bits only. *)
(*  - Memory is the 1 MiB array, kept as the function of its non-zero      *)
(*    bytes (a byte that is not in the domain reads as 0).                 *)
(*  - A Rust panic (division by zero, arithmetic overflow when the build   *)
(*    has overflow checks) ends the process: cpu.panicked becomes TRUE and *)
(*    no further action is enabled.                                        *)
(***************************************************************************)
EXTENDS Integers, Naturals, Sequences, FiniteSets, TLC

VARIABLES
    cpu,              \* the CPU struct (registers, flags, memory, counters)
    code,             \* what the decoder returns at each linear address
    overflow_checks,  \* TRUE: the build panics on integer overflow (debug)
    host,             \* the API the host drives: "CPU" or "Machine"
    pc,               \* the host: "idle" or inside one of the execution loops
    remaining,        \* iterations left in Machine::execute_instructions
    call,             \* the execution-loop call in progress / last returned
    steps,            \* number of execute_instruction calls so far
    hist,             \* the last two host-visible events, with pre/post state
    rep               \* the run of a repeated instruction in progress

vars == <<cpu, code, overflow_checks, host, pc, remaining, call, steps, hist, rep>>

---------------------------------------------------------------------------
(* Bounds of the model *)

\* number of execute_instruction calls in one behaviour
MaxSteps == 3

\* largest count the host passes to Machine::execute_instructions
MaxCount == 2

\* largest CX a repeated string instruction starts with
MaxRep == 2

\* number of OUT instructions to the DAC ports in one behaviour
MaxWrites == 7

\* number of instructions of the status-polling loop in one behaviour
MaxPolls == 4

---------------------------------------------------------------------------
(* Program constants *)

U16 == 2^16

U8 == 2^8

\* modulus at which the model keeps usize values
USizeMod == 2^30

\* CPU::new: clock_hz
clock_hz == 5000000

\* CPU::execute_frame: fps
fps == 60

\* GPU::new: width
gpu_width == 320

\* load_com: psp_segment
psp_segment == 2143

---------------------------------------------------------------------------
(* Register file *)

R16 == {"AX", "CX", "DX", "BX", "SP", "BP", "SI", "DI"}

SR == {"ES", "CS", "SS", "DS", "FS", "GS"}

get_r16(c, r) == c.r16[r]

set_r16(c, r, val) == [c EXCEPT !.r16[r] = val]

get_sr(c, sr) == c.sreg16[sr]

set_sr(c, sr, val) == [c EXCEPT !.sreg16[sr] = val]

R8 == {"AL", "CL", "DL", "BL", "AH", "CH", "DH", "BH"}

\* the 16-bit register an 8-bit register is a half of
R8Reg(r) ==
    CASE r \in {"AL", "AH"} -> "AX"
      [] r \in {"CL", "CH"} -> "CX"
      [] r \in {"DL", "DH"} -> "DX"
      [] OTHER -> "BX"

R8IsLow(r) == r \in {"AL", "CL", "DL", "BL"}

get_r8(c, r) ==
    IF R8IsLow(r) THEN c.r16[R8Reg(r)] % 256 ELSE c.r16[R8Reg(r)] \div 256

set_r8(c, r, val) ==
    IF R8IsLow(r)
    THEN [c EXCEPT !.r16[R8Reg(r)] = (@ \div 256) * 256 + val]
    ELSE [c EXCEPT !.r16[R8Reg(r)] = val * 256 + (@ % 256)]

---------------------------------------------------------------------------
(* MMU: segment:offset translation and byte/word access *)

s_translate(seg, off) == (seg * 16 + off) % 1048576

MemRead(m, a) == IF a \in DOMAIN m THEN m[a] ELSE 0

MemWrite(m, a, v) ==
    IF v = 0
    THEN [x \in DOMAIN m \ {a} |-> m[x]]
    ELSE [x \in DOMAIN m \cup {a} |-> IF x = a THEN v ELSE m[x]]

mmu_read_u8(c, seg, off) == MemRead(c.mem, s_translate(seg, off))

mmu_read_u16(c, seg, off) ==
    mmu_read_u8(c, seg, off) + 256 * mmu_read_u8(c, seg, (off + 1) % U16)

mmu_write_u8(c, seg, off, data) ==
    [c EXCEPT !.mem = MemWrite(@, s_translate(seg, off), data)]

mmu_write_u16(c, seg, off, data) ==
    mmu_write_u8(mmu_write_u8(c, seg, off, data % 256),
                 seg, (off + 1) % U16, data \div 256)

---------------------------------------------------------------------------
(* Panics *)

Panic(c) == [c EXCEPT !.panicked = TRUE]

\* run F on c unless the process has already panicked
Then(c, F(_)) == IF c.panicked THEN c ELSE F(c)

\* a `let v = ...;` binding: the value is computed once and handed to F
Bind(v, F(_)) == F(v)

\* a u16 assignment whose right-hand side was computed with plain + or -
\* (not Wrapping): panics under overflow checks, wraps otherwise
CheckedR16(c, r, x) ==
    IF x > 65535 \/ x < 0
    THEN IF overflow_checks THEN Panic(c) ELSE set_r16(c, r, x % U16)
    ELSE set_r16(c, r, x)

---------------------------------------------------------------------------
(* Decoded instructions: Instruction { command, params, segment_prefix,     *)
(* repeat, lock, length } and the Parameter variants                        *)

NoParam == [t |-> "None"]

Reg8(r) == [t |-> "Reg8", r |-> r]

Reg16(r) == [t |-> "Reg16", r |-> r]

SReg16(sr) == [t |-> "SReg16", sr |-> sr]

Imm8(imm) == [t |-> "Imm8", imm |-> imm]

Imm16(imm) == [t |-> "Imm16", imm |-> imm]

\* imm is the signed value, -128..127
ImmS8(imm) == [t |-> "ImmS8", imm |-> imm]

Ptr8(seg, imm) == [t |-> "Ptr8", seg |-> seg, imm |-> imm]

Ptr16(seg, imm) == [t |-> "Ptr16", seg |-> seg, imm |-> imm]

Ptr16Imm(seg, imm) == [t |-> "Ptr16Imm", seg |-> seg, imm |-> imm]

Ins(command, dst, src, mode, length) ==
    [command |-> command, dst |-> dst, src |-> src,
     segment_prefix |-> "Default", repeat |-> mode, lock |-> FALSE,
     length |-> length]

\* ParameterSet::count
params_count(op) ==
    IF op.dst.t = "None" THEN 0 ELSE IF op.src.t = "None" THEN 1 ELSE 2

---------------------------------------------------------------------------
(* CPU::new and the resets *)

Flags_new ==
    [carry |-> FALSE, parity |-> FALSE, auxiliary_carry |-> FALSE,
     zero |-> FALSE, sign |-> FALSE, trap |-> FALSE, interrupt |-> FALSE,
     direction |-> FALSE, overflow |-> FALSE]

\* the DAC of the GPU: index register, position in the R,G,B triple, the
\* triple being collected, and the palette entries that are not black
GPU_new ==
    [dac_index |-> 0, dac_color |-> 0, dac_current_palette |-> <<0, 0, 0>>,
     palette |-> <<>>]

CPU_new(mem) ==
    [ip |-> 0, instruction_count |-> 0, cycle_count |-> 0, gpu |-> GPU_new,
     r16 |-> [r \in R16 |-> 0], sreg16 |-> [s \in SR |-> 0],
     flags |-> Flags_new, scanline |-> 0, pit_counter0 |-> 0, pit_high_next |-> FALSE,
     pit_timer0_count |-> [hi |-> 0, lo |-> 0], fatal_error |-> FALSE, deterministic |-> FALSE,
     mem |-> mem, panicked |-> FALSE]

soft_reset(c) == CPU_new(c.mem)

hard_reset(c, mmu) == CPU_new(mmu)

\* Machine::hard_reset: self.cpu = CPU::default(); the memory lives in self.hw
Machine_hard_reset(c) == CPU_new(c.mem)

\* MMU::write(seg, offset, data): the bytes of data stored from seg:offset up
RECURSIVE mmu_write(_, _, _, _)
mmu_write(c, seg, off, data) ==
    IF data = <<>> THEN c
    ELSE mmu_write(mmu_write_u8(c, seg, off, Head(data)), seg, (off + 1) % U16, Tail(data))

\* load_com setting the registers only
load_com_registers_only(c, data) ==
    [c EXCEPT !.sreg16["CS"] = psp_segment, !.sreg16["DS"] = psp_segment,
              !.sreg16["ES"] = psp_segment, !.sreg16["SS"] = psp_segment,
              !.r16["SP"] = 65534, !.r16["BP"] = 2332, !.r16["CX"] = 255,
              !.r16["DX"] = psp_segment, !.r16["SI"] = 256,
              !.r16["DI"] = 65534, !.ip = 256]

\* CPU::load_com: the registers a .COM program starts with, and its image
load_com(c, data) ==
    LET c1 == [c EXCEPT !.sreg16["CS"] = psp_segment, !.sreg16["DS"] = psp_segment,
                        !.sreg16["ES"] = psp_segment, !.sreg16["SS"] = psp_segment,
                        !.r16["SP"] = 65534, !.r16["BP"] = 2332, !.r16["CX"] = 255,
                        !.r16["DX"] = psp_segment, !.r16["SI"] = 256,
                        !.r16["DI"] = 65534, !.ip = 256]
    IN  mmu_write(c1, get_sr(c1, "CS"), c1.ip, data)

---------------------------------------------------------------------------
(* Stack *)

\* push16 storing at the old top of stack before moving SP
push16_store_then_move(c, data) ==
    LET c1 == mmu_write_u16(c, get_sr(c, "SS"), get_r16(c, "SP"), data)
    IN  set_r16(c1, "SP", (get_r16(c, "SP") - 2) % U16)

push16(c, data) ==
    LET sp == (get_r16(c, "SP") - 2) % U16
        c1 == set_r16(c, "SP", sp)
    IN  mmu_write_u16(c1, get_sr(c1, "SS"), sp, data)

\* pop16 returns the word and moves SP: the pair <<data, cpu after>>
pop16(c) ==
    LET data == mmu_read_u16(c, get_sr(c, "SS"), get_r16(c, "SP"))
        sp == (get_r16(c, "SP") + 2) % U16
    IN  <<data, set_r16(c, "SP", sp)>>

---------------------------------------------------------------------------
(* Operand access *)

AMode == {"BXSI", "BXDI", "BPSI", "BPDI", "SI", "DI", "BP", "BX"}

\* Ptr8Amode / Ptr16Amode with no, 8-bit or 16-bit displacement
PtrAmode(t, seg, amode, imm) == [t |-> t, seg |-> seg, amode |-> amode, imm |-> imm]

segment(c, seg) ==
    CASE seg \in {"Default", "DS"} -> get_sr(c, "DS")
      [] seg = "CS" -> get_sr(c, "CS")
      [] seg = "ES" -> get_sr(c, "ES")
      [] seg = "FS" -> get_sr(c, "FS")
      [] seg = "GS" -> get_sr(c, "GS")
      [] seg = "SS" -> get_sr(c, "SS")

amode16(c, amode) ==
    CASE amode = "BXSI" -> (get_r16(c, "BX") + get_r16(c, "SI")) % U16
      [] amode = "BXDI" -> (get_r16(c, "BX") + get_r16(c, "DI")) % U16
      [] amode = "BPSI" -> (get_r16(c, "BP") + get_r16(c, "SI")) % U16
      [] amode = "BPDI" -> (get_r16(c, "BP") + get_r16(c, "DI")) % U16
      [] amode = "SI" -> get_r16(c, "SI")
      [] amode = "DI" -> get_r16(c, "DI")
      [] amode = "BP" -> get_r16(c, "BP")
      [] amode = "BX" -> get_r16(c, "BX")

\* the offset of an Amode operand: amode16 + (imm as u16), wrapping
AmodeOffset(c, p) ==
    IF p.t \in {"Ptr8Amode", "Ptr16Amode"}
    THEN amode16(c, p.amode)
    ELSE (amode16(c, p.amode) + (p.imm % U16)) % U16

read_parameter_value(c, p) ==
    CASE p.t \in {"Imm8", "Imm16"} -> p.imm
      [] p.t = "ImmS8" -> p.imm % USizeMod
      [] p.t = "Ptr8" -> mmu_read_u8(c, segment(c, p.seg), p.imm)
      [] p.t = "Ptr16" -> mmu_read_u16(c, segment(c, p.seg), p.imm)
      [] p.t \in {"Ptr8Amode", "Ptr8AmodeS8", "Ptr8AmodeS16"} ->
            mmu_read_u8(c, segment(c, p.seg), AmodeOffset(c, p))
      [] p.t \in {"Ptr16Amode", "Ptr16AmodeS8", "Ptr16AmodeS16"} ->
            mmu_read_u16(c, segment(c, p.seg), AmodeOffset(c, p))
      [] p.t = "Reg8" -> get_r8(c, p.r)
      [] p.t = "Reg16" -> get_r16(c, p.r)
      [] p.t = "SReg16" -> get_sr(c, p.sr)
      [] OTHER -> 0

write_parameter_u8(c, p, data) ==
    CASE p.t = "Reg8" -> set_r8(c, p.r, data)
      [] p.t = "Ptr8" -> mmu_write_u8(c, segment(c, p.seg), p.imm, data)
      [] p.t \in {"Ptr8Amode", "Ptr8AmodeS8", "Ptr8AmodeS16"} ->
            mmu_write_u8(c, segment(c, p.seg), AmodeOffset(c, p), data)
      [] OTHER -> c

write_parameter_u16(c, seg, p, data) ==
    CASE p.t = "Reg16" -> set_r16(c, p.r, data)
      [] p.t = "SReg16" -> set_sr(c, p.sr, data)
      [] p.t = "Imm16" -> mmu_write_u16(c, segment(c, seg), p.imm, data)
      [] p.t = "Ptr16" -> mmu_write_u16(c, segment(c, p.seg), p.imm, data)
      [] p.t \in {"Ptr16Amode", "Ptr16AmodeS8", "Ptr16AmodeS16"} ->
            mmu_write_u16(c, segment(c, p.seg), AmodeOffset(c, p), data)
      [] OTHER -> c

---------------------------------------------------------------------------
(* Interrupts and exceptions *)

\* CPU::exception only logs
exception(c, which, error) == c

\* int1a::handle, TIME
int1a_handle(c) ==
    CASE get_r8(c, "AH") = 0 ->
            IF c.deterministic
            THEN set_r8(set_r16(set_r16(c, "CX", 0), "DX", 0), "AL", 0)
            ELSE set_r8(set_r16(set_r16(c, "CX", c.pit_timer0_count.hi),
                                "DX", c.pit_timer0_count.lo), "AL", 0)
      [] get_r8(c, "AH") = 1 ->
            [c EXCEPT !.pit_timer0_count =
                [hi |-> get_r16(c, "CX"), lo |-> get_r16(c, "DX")]]
      [] OTHER -> c

\* int33::handle, MOUSE: only logs
int33_handle(c) == c

\* int10::handle (video) and int16::handle (keyboard)
int10_handle(c) == c

int16_handle(c) == c

\* int21::handle (DOS): AH=4Ch terminates the program
int21_handle(c) ==
    IF get_r8(c, "AH") = 76 THEN [c EXCEPT !.fatal_error = TRUE] ELSE c

int(c, n) ==
    CASE n = 3 -> [c EXCEPT !.fatal_error = TRUE]
      [] n = 16 -> int10_handle(c)
      [] n = 22 -> int16_handle(c)
      [] n = 26 -> int1a_handle(c)
      [] n = 32 -> [c EXCEPT !.fatal_error = TRUE]
      [] n = 33 -> int21_handle(c)
      [] n = 51 -> int33_handle(c)
      [] OTHER -> c

\* the vectors CPU::int hands to a host handler
TrappedVectors == {3, 16, 22, 26, 32, 33, 51}

---------------------------------------------------------------------------
(* Integer conversions and Rust's truncating signed division *)

\* x as i16, for x a u16 or a usize
ToI16(x) == IF x % U16 >= 32768 THEN (x % U16) - U16 ELSE x % U16

Abs(x) == IF x < 0 THEN -x ELSE x

\* a / b on signed integers, b # 0: rounds towards zero
TDiv(a, b) ==
    IF (a < 0) # (b < 0) THEN -(Abs(a) \div Abs(b)) ELSE Abs(a) \div Abs(b)

\* a % b on signed integers, b # 0: the sign of a
TRem(a, b) == a - b * TDiv(a, b)

---------------------------------------------------------------------------
(* Flags: the setters of the Flags struct *)

RECURSIVE Ones(_)
Ones(x) == IF x = 0 THEN 0 ELSE (x % 2) + Ones(x \div 2)

\* bit n of x
Bit(x, n) == (x \div (2 ^ n)) % 2

\* set_parity: PF is set when the low byte has an even number of one bits
set_parity(f, res) == [f EXCEPT !.parity = (Ones(res % 256) % 2 = 0)]

set_zero_u16(f, res) == [f EXCEPT !.zero = (res % U16 = 0)]

set_sign_u16(f, res) == [f EXCEPT !.sign = (Bit(res % U16, 15) = 1)]

set_zero_u8(f, res) == [f EXCEPT !.zero = (res % 256 = 0)]

set_sign_u8(f, res) == [f EXCEPT !.sign = (Bit(res, 7) = 1)]

set_carry_u8(f, res) == [f EXCEPT !.carry = (Bit(res, 8) = 1)]

set_carry_u16(f, res) == [f EXCEPT !.carry = (Bit(res, 16) = 1)]

\* OF of an addition: v1 and v2 share a sign bit that differs from the
\* result's, ((res ^ v1) & (res ^ v2) & 0x80) != 0
set_overflow_add_u8(f, res, v1, v2) ==
    [f EXCEPT !.overflow = Bit(res, 7) # Bit(v1, 7) /\ Bit(res, 7) # Bit(v2, 7)]

set_overflow_add_u16(f, res, v1, v2) ==
    [f EXCEPT !.overflow = Bit(res, 15) # Bit(v1, 15) /\ Bit(res, 15) # Bit(v2, 15)]

\* AF: ((res ^ v1 ^ v2) & 0x10) != 0
set_auxiliary(f, res, v1, v2) ==
    [f EXCEPT !.auxiliary_carry = ((Bit(res, 4) + Bit(v1, 4) + Bit(v2, 4)) % 2 = 1)]

\* OF of a subtraction dst - src: src and dst differ in sign and the result's
\* sign matches src, ((dst ^ src) & (dst ^ res) & 0x80) != 0
set_overflow_sub_u8(f, res, src, dst) ==
    [f EXCEPT !.overflow = Bit(dst, 7) # Bit(src, 7) /\ Bit(dst, 7) # Bit(res, 7)]

set_overflow_sub_u16(f, res, src, dst) ==
    [f EXCEPT !.overflow = Bit(dst, 15) # Bit(src, 15) /\ Bit(dst, 15) # Bit(res, 15)]

\* cmp16: res = Wrapping(dst) - Wrapping(src) on usize; the flags of a 16-bit
\* subtraction dst - src
cmp16(c, dst, src) ==
    LET res == (dst - src) % USizeMod
    IN  [c EXCEPT
            !.flags = set_parity(
                          set_auxiliary(
                              set_zero_u16(
                                  set_sign_u16(
                                      set_overflow_sub_u16(set_carry_u16(@, res),
                                                           res, src, dst),
                                      res),
                                  res),
                              res, src, dst),
                          res)]

---------------------------------------------------------------------------
(* CPU::execute: the arms of match op.command *)

\* SI or DI moved by one element in the direction DF gives
Advance(c, r, size) ==
    set_r16(c, r, IF ~c.flags.direction
                  THEN (get_r16(c, r) + size) % U16
                  ELSE (get_r16(c, r) - size) % U16)

op_CallNear(c, op) ==
    LET old_ip == c.ip
        temp_ip == read_parameter_value(c, op.dst)
    IN  [push16(c, old_ip) EXCEPT !.ip = temp_ip % U16]

\* DIV r/m8.  Wrapping(dst) / Wrapping(0) panics in every build.
op_Div8(c, op) ==
    LET dst == get_r16(c, "AX")
        src == read_parameter_value(c, op.dst)
    IN  IF src = 0 THEN Panic(c)
        ELSE set_r8(set_r8(c, "AL", (dst \div src) % 256), "AH", (dst % src) % 256)

\* DIV r/m16 (the model keeps DX:AX below 2^31: DX < 32768)
op_Div16(c, op) ==
    LET dst == get_r16(c, "DX") * U16 + get_r16(c, "AX")
        src == read_parameter_value(c, op.dst)
    IN  IF src = 0 THEN Panic(c)
        ELSE set_r16(set_r16(c, "AX", (dst \div src) % U16), "DX", (dst % src) % U16)

\* IDIV r/m8: exception() returns, and the division that follows panics on a
\* zero divisor and on i16::MIN / -1
op_Idiv8(c, op) ==
    LET dividend == ToI16(get_r16(c, "AX"))
        op1 == ToI16(read_parameter_value(c, op.dst))
        c1 == IF op1 = 0 THEN exception(c, "DIV0", 0) ELSE c
    IN  IF op1 = 0 \/ (dividend = -32768 /\ op1 = -1) THEN Panic(c1)
        ELSE LET quo == TDiv(dividend, op1)
                 rem == TRem(dividend, op1)
                 c2 == IF dividend > 255 THEN exception(c1, "DIV0", 0) ELSE c1
             IN  set_r8(set_r8(c2, "AL", quo % 256), "AH", rem % 256)

\* IDIV r/m16
op_Idiv16(c, op) ==
    LET dividend == ToI16(get_r16(c, "DX")) * U16 + get_r16(c, "AX")
        op1 == ToI16(read_parameter_value(c, op.dst))
        c1 == IF op1 = 0 THEN exception(c, "DIV0", 0) ELSE c
    IN  IF op1 = 0 THEN Panic(c1)
        ELSE LET quo == TDiv(dividend, op1)
                 rem == TRem(dividend, op1)
                 c2 == IF quo < 0 \/ quo > 65535 THEN exception(c1, "DIV0", 0) ELSE c1
             IN  set_r16(set_r16(c2, "AX", quo % U16), "DX", rem % U16)

JccCommands ==
    {"Ja", "Jc", "Jg", "Jl", "Jna", "Jnc", "Jng", "Jnl", "Jns", "Jno", "Jnz",
     "Js", "Jo", "Jpe", "Jpo", "Jz"}

\* the `if` of each conditional jump arm, as Rust parses it: & and | bind
\* tighter than == and !=
JccTaken(command, f) ==
    CASE command = "Ja" -> ~f.carry /\ ~f.zero
      [] command = "Jc" -> f.carry
      [] command = "Jg" -> (~f.zero /\ f.sign) = f.overflow
      [] command = "Jl" -> f.sign # f.overflow
      [] command = "Jna" -> f.carry \/ f.zero
      [] command = "Jnc" -> ~f.carry
      [] command = "Jng" -> (f.zero \/ f.sign) # f.overflow
      [] command = "Jnl" -> f.sign = f.overflow
      [] command = "Jns" -> ~f.sign
      [] command = "Jno" -> ~f.overflow
      [] command = "Jnz" -> ~f.zero
      [] command = "Js" -> f.sign
      [] command = "Jo" -> f.overflow
      [] command = "Jpe" -> f.parity
      [] command = "Jpo" -> ~f.parity
      [] command = "Jz" -> f.zero

op_Jcc(c, op) ==
    IF JccTaken(op.command, c.flags)
    THEN [c EXCEPT !.ip = read_parameter_value(c, op.dst) % U16]
    ELSE c

op_Int(c, op) == int(c, read_parameter_value(c, op.dst) % 256)

op_Lodsb(c, op) ==
    LET val == mmu_read_u8(c, segment(c, op.segment_prefix), get_r16(c, "SI"))
    IN  Advance(set_r8(c, "AL", val), "SI", 1)

op_Lodsw(c, op) ==
    LET val == mmu_read_u16(c, segment(c, op.segment_prefix), get_r16(c, "SI"))
    IN  Advance(set_r16(c, "AX", val), "SI", 2)

op_Movsb(c, op) ==
    LET b == mmu_read_u8(c, segment(c, op.segment_prefix), get_r16(c, "SI"))
        c1 == Advance(c, "SI", 1)
        c2 == mmu_write_u8(c1, get_sr(c1, "ES"), get_r16(c1, "DI"), b)
    IN  Advance(c2, "DI", 1)

op_Movsw(c, op) ==
    LET b == mmu_read_u16(c, segment(c, op.segment_prefix), get_r16(c, "SI"))
        c1 == Advance(c, "SI", 2)
        c2 == mmu_write_u16(c1, get_sr(c1, "ES"), get_r16(c1, "DI"), b)
    IN  Advance(c2, "DI", 2)

\* Cmpsw compares the words at DS:SI and ES:DI; it writes neither SI nor DI
op_Cmpsw(c, op) ==
    LET src == mmu_read_u16(c, segment(c, op.segment_prefix), get_r16(c, "SI"))
        dst == mmu_read_u16(c, get_sr(c, "ES"), get_r16(c, "DI"))
    IN  cmp16(c, dst, src)

\* gpu.palette[i]
PaletteAt(g, i) == IF i \in DOMAIN g.palette THEN g.palette[i] ELSE <<0, 0, 0>>

PaletteSet(g, i, rgb) ==
    [g EXCEPT !.palette =
        IF rgb = <<0, 0, 0>>
        THEN [x \in DOMAIN @ \ {i} |-> @[x]]
        ELSE [x \in DOMAIN @ \cup {i} |-> IF x = i THEN rgb ELSE @[x]]]

\* GPU::set_pel_address: the DAC index for the next triple
set_pel_address(c, data) == [c EXCEPT !.gpu.dac_index = data, !.gpu.dac_color = 0]

\* GPU::set_pel_data: R, G, B in turn, 6 bits each shifted left by 2; the
\* index moves on after the third
set_pel_data(c, data) ==
    LET g == c.gpu
        cur == [g.dac_current_palette EXCEPT ![g.dac_color + 1] = (data * 4) % 256]
    IN  IF g.dac_color >= 2
        THEN [c EXCEPT !.gpu = [PaletteSet(g, g.dac_index, cur) EXCEPT
                                    !.dac_current_palette = cur,
                                    !.dac_color = 0,
                                    !.dac_index = (@ + 1) % 256]]
        ELSE [c EXCEPT !.gpu.dac_current_palette = cur, !.gpu.dac_color = @ + 1]

\* out_u8: write byte to I/O port; a port other than 03C7..03C9 is only logged
out_u8(c, dst, data) ==
    CASE dst \in {967, 968} -> set_pel_address(c, data)
      [] dst = 969 -> set_pel_data(c, data)
      [] OTHER -> c

\* out_u16: write word to I/O port; the arms of 03C4 and 03D4 are empty
out_u16(c, dst, data) == c

\* pit.counter0.read_next_part: the low byte, then the high byte
read_next_part(c) ==
    <<IF c.pit_high_next THEN c.pit_counter0 \div 256 ELSE c.pit_counter0 % 256,
      [c EXCEPT !.pit_high_next = ~@]>>

\* gpu.read_cga_status_register: bit 0 in horizontal, bit 3 in vertical retrace
read_cga_status_register(c) ==
    <<(IF c.scanline = 0 THEN 1 ELSE 0) + (IF c.scanline >= gpu_width THEN 8 ELSE 0), c>>

\* in_port with an unmapped port reading as an open bus
in_port_open_bus(c, port) ==
    CASE port \in {2, 96} -> <<0, c>>
      [] port = 64 -> read_next_part(c)
      [] port \in {65, 66} -> <<0, c>>
      [] port = 986 -> read_cga_status_register(c)
      [] OTHER -> <<255, c>>

\* in_port: read byte from I/O port, <<value, cpu after>>
in_port(c, port) ==
    CASE port \in {2, 96} -> <<0, c>>
      [] port = 64 -> read_next_part(c)
      [] port \in {65, 66} -> <<0, c>>
      [] port = 986 -> read_cga_status_register(c)
      [] OTHER -> <<0, c>>

\* Adc8: dst + src + carry; the flag helpers are handed src + carry
\* the body of the Adc8 arm once its operands are read: v1 is src + carry,
\* v2 is dst
adc_u8(c, op, v1, v2) ==
    LET res == v2 + v1
        f1 == set_overflow_add_u8(
                  write_parameter_u8(c, op.dst, res % 256).flags, res, v1, v2)
        f2 == set_zero_u8(set_sign_u8(f1, res), res)
        f3 == set_auxiliary(f2, res, v1, v2)
    IN  [write_parameter_u8(c, op.dst, res % 256)
            EXCEPT !.flags = set_parity(set_carry_u8(f3, res), res)]

op_Adc8(c, op) ==
    adc_u8(c, op,
           read_parameter_value(c, op.src) + (IF c.flags.carry THEN 1 ELSE 0),
           read_parameter_value(c, op.dst))

\* the body of the Adc16 arm once its operands are read
adc_u16(c, op, v1, v2) ==
    LET res == v2 + v1
        f1 == set_overflow_add_u16(
                  write_parameter_u16(c, op.segment_prefix, op.dst, res % U16).flags,
                  res, v1, v2)
        f2 == set_zero_u16(set_sign_u16(f1, res), res)
        f3 == set_auxiliary(f2, res, v1, v2)
    IN  [write_parameter_u16(c, op.segment_prefix, op.dst, res % U16)
            EXCEPT !.flags = set_parity(set_carry_u16(f3, res), res)]

op_Adc16(c, op) ==
    adc_u16(c, op,
            read_parameter_value(c, op.src) + (IF c.flags.carry THEN 1 ELSE 0),
            read_parameter_value(c, op.dst))

\* the `for i in 0..nesting_level` of Enter: BP moves down by 2 (a plain -)
\* and the word it points at is pushed
RECURSIVE EnterLevels(_, _)
EnterLevels(c, n) ==
    IF n = 0 \/ c.panicked THEN c
    ELSE LET bp == get_r16(c, "BP") - 2
         IN  IF bp < 0 /\ overflow_checks THEN Panic(c)
             ELSE LET c1 == set_r16(c, "BP", bp % U16)
                      val == mmu_read_u16(c1, get_sr(c1, "SS"), get_r16(c1, "BP"))
                  IN  EnterLevels(push16(c1, val), n - 1)

\* Enter: make stack frame.  SP - alloc_size is a plain -.
op_Enter(c, op) ==
    LET alloc_size == read_parameter_value(c, op.dst) % U16
        nesting_level == read_parameter_value(c, op.src) % 32
        c1 == push16(c, get_r16(c, "BP"))
        frame_temp == get_r16(c1, "SP")
        c2 == IF nesting_level # 0
              THEN Then(EnterLevels(c1, nesting_level), LAMBDA x : push16(x, frame_temp))
              ELSE c1
    IN  Then(c2, LAMBDA x :
            LET c3 == set_r16(x, "BP", frame_temp)
                sp == get_r16(c3, "SP") - alloc_size
            IN  IF sp < 0 /\ overflow_checks THEN Panic(c3)
                ELSE set_r16(c3, "SP", sp % U16))

\* Leave: set SP to BP, then pop BP
op_Leave(c, op) ==
    LET c1 == set_r16(c, "SP", get_r16(c, "BP"))
        r == pop16(c1)
    IN  set_r16(r[2], "BP", r[1])

op_In8(c, op) ==
    LET src == read_parameter_value(c, op.src)
        r == in_port(c, src % U16)
    IN  write_parameter_u8(r[2], op.dst, r[1])

op_Out8(c, op) ==
    out_u8(c, read_parameter_value(c, op.dst) % U16, read_parameter_value(c, op.src) % 256)

op_Out16(c, op) ==
    out_u16(c, read_parameter_value(c, op.dst) % U16, read_parameter_value(c, op.src) % U16)

op_Outsb(c, op) ==
    LET val == mmu_read_u8(c, segment(c, op.segment_prefix), get_r16(c, "SI"))
    IN  Advance(out_u8(c, get_r16(c, "DX"), val), "SI", 1)

op_Outsw(c, op) ==
    LET val == mmu_read_u16(c, segment(c, op.segment_prefix), get_r16(c, "SI"))
    IN  Advance(out_u16(c, get_r16(c, "DX"), val), "SI", 2)

\* Mov8: the source value, as u8, written to dst
op_Mov8(c, op) ==
    write_parameter_u8(c, op.dst, read_parameter_value(c, op.src) % 256)

\* Mov16: write_parameter_u16 is handed the instruction's segment prefix
op_Mov16(c, op) ==
    write_parameter_u16(c, op.segment_prefix, op.dst,
                        read_parameter_value(c, op.src) % U16)

op_Pop16(c, op) ==
    LET r == pop16(c)
    IN  write_parameter_u16(r[2], op.segment_prefix, op.dst, r[1])

op_Push16(c, op) == push16(c, read_parameter_value(c, op.dst) % U16)

\* pop16 into register r
PopInto(c, r) ==
    LET p == pop16(c)
    IN  set_r16(p[2], r, p[1])

\* Popa: DI, SI, BP, then `SP + 2` (a plain +), then BX, DX, CX, AX
op_Popa(c, op) ==
    LET c3 == PopInto(PopInto(PopInto(c, "DI"), "SI"), "BP")
    IN  Then(CheckedR16(c3, "SP", get_r16(c3, "SP") + 2),
             LAMBDA c4 : PopInto(PopInto(PopInto(PopInto(c4, "BX"), "DX"), "CX"), "AX"))

\* Pusha: the eight registers are read first, then pushed
op_Pusha(c, op) ==
    LET v(r) == get_r16(c, r)
    IN  push16(push16(push16(push16(push16(push16(push16(push16(c,
            v("AX")), v("CX")), v("DX")), v("BX")), v("SP")), v("BP")), v("SI")), v("DI"))

\* the "pop imm16 bytes" prologue shared by Retf and Retn: SP + imm16 with a
\* plain +
RetAdjust(c, op) ==
    IF params_count(op) = 1
    THEN CheckedR16(c, "SP", get_r16(c, "SP") + (read_parameter_value(c, op.dst) % U16))
    ELSE c

op_Retf(c, op) ==
    Then(RetAdjust(c, op),
         LAMBDA c1 :
            LET r1 == pop16(c1)
                r2 == pop16([r1[2] EXCEPT !.ip = r1[1]])
            IN  set_sr(r2[2], "CS", r2[1]))

\* a near return that tests SP for 0xFFFE before the imm16 adjustment
op_Retn_check_before_adjust(c, op) ==
    Then(RetAdjust(c, op),
         LAMBDA c1 :
            LET c2 == IF get_r16(c, "SP") = 65534
                      THEN [c1 EXCEPT !.fatal_error = TRUE] ELSE c1
                r == pop16(c2)
            IN  [r[2] EXCEPT !.ip = r[1]])

\* Retn: fatal_error when SP is 0xFFFE after the adjustment, then the pop
op_Retn(c, op) ==
    Then(RetAdjust(c, op),
         LAMBDA c1 :
            LET c2 == IF get_r16(c1, "SP") = 65534
                      THEN [c1 EXCEPT !.fatal_error = TRUE] ELSE c1
                r == pop16(c2)
            IN  [r[2] EXCEPT !.ip = r[1]])

op_Stosb(c, op) ==
    LET c1 == mmu_write_u8(c, get_sr(c, "ES"), get_r16(c, "DI"), get_r8(c, "AL"))
    IN  Advance(c1, "DI", 1)

op_Stosw(c, op) ==
    LET c1 == mmu_write_u16(c, get_sr(c, "ES"), get_r16(c, "DI"), get_r16(c, "AX"))
    IN  Advance(c1, "DI", 2)

\* the flag setters and write_parameter of either width: the 8- and 16-bit
\* arms of an instruction differ only in which of the two they call
set_sign_w(f, res, w) == IF w = 8 THEN set_sign_u8(f, res) ELSE set_sign_u16(f, res)

set_zero_w(f, res, w) == IF w = 8 THEN set_zero_u8(f, res) ELSE set_zero_u16(f, res)

set_carry_w(f, res, w) == IF w = 8 THEN set_carry_u8(f, res) ELSE set_carry_u16(f, res)

set_overflow_sub_w(f, res, src, dst, w) ==
    IF w = 8 THEN set_overflow_sub_u8(f, res, src, dst)
    ELSE set_overflow_sub_u16(f, res, src, dst)

set_overflow_add_w(f, res, src, dst, w) ==
    IF w = 8 THEN set_overflow_add_u8(f, res, src, dst)
    ELSE set_overflow_add_u16(f, res, src, dst)

write_parameter_w(c, op, data, w) ==
    IF w = 8 THEN write_parameter_u8(c, op.dst, data % 256)
    ELSE write_parameter_u16(c, op.segment_prefix, op.dst, data % U16)

\* set_sign, set_zero and set_parity of a result
SZP(f, res, w) == set_parity(set_zero_w(set_sign_w(f, res, w), res, w), res)

\* a compare that leaves the carry flag alone
cmp8_without_carry(c, dst, src) ==
    LET res == (dst - src) % USizeMod
    IN  [c EXCEPT
            !.flags = set_parity(
                          set_auxiliary(
                              set_zero_u8(
                                  set_sign_u8(
                                      set_overflow_sub_u8(@, res, src, dst),
                                      res),
                                  res),
                              res, src, dst),
                          res)]

\* the body of the Cmp8 arm once the operands are read
cmp8(c, dst, src) ==
    LET res == (dst - src) % USizeMod
    IN  [c EXCEPT
            !.flags = set_parity(
                          set_auxiliary(
                              set_zero_u8(
                                  set_sign_u8(
                                      set_overflow_sub_u8(set_carry_u8(@, res),
                                                          res, src, dst),
                                      res),
                                  res),
                              res, src, dst),
                          res)]

op_Cmp8(c, op) ==
    cmp8(c, read_parameter_value(c, op.dst), read_parameter_value(c, op.src))

op_Cmp16(c, op) ==
    cmp16(c, read_parameter_value(c, op.dst), read_parameter_value(c, op.src))

\* the body of the Sub8 / Sub16 arm once the operands are read: the flags
\* first, then the write-back
sub(c, op, w, dst, src) ==
    LET res == (dst - src) % USizeMod
    IN  [write_parameter_w(c, op, res, w) EXCEPT
            !.flags = set_carry_w(
                          set_parity(
                              set_auxiliary(
                                  set_zero_w(
                                      set_sign_w(
                                          set_overflow_sub_w(@, res, src, dst, w),
                                          res, w),
                                      res, w),
                                  res, src, dst),
                              res),
                          res, w)]

op_Sub(c, op, w) ==
    sub(c, op, w, read_parameter_value(c, op.dst), read_parameter_value(c, op.src))

\* Dec8 / Dec16: src is the constant 1; no carry setter is called
op_Dec(c, op, w) ==
    Bind(read_parameter_value(c, op.dst), LAMBDA dst :
        LET res == (dst - 1) % USizeMod
        IN  [write_parameter_w(c, op, res, w) EXCEPT
                !.flags = set_parity(
                              set_auxiliary(
                                  set_zero_w(
                                      set_sign_w(
                                          set_overflow_sub_w(@, res, 1, dst, w),
                                          res, w),
                                      res, w),
                                  res, 1, dst),
                              res)])

\* an increment that sets the carry like ADD dst, 1
op_Inc_as_add(c, op, w) ==
    Bind(read_parameter_value(c, op.dst), LAMBDA dst :
        LET res == (dst + 1) % USizeMod
        IN  [write_parameter_w(c, op, res, w) EXCEPT
                !.flags = set_carry_w(
                              set_parity(
                                  set_auxiliary(
                                      set_zero_w(
                                          set_sign_w(
                                              set_overflow_add_w(@, res, 1, dst, w),
                                              res, w),
                                          res, w),
                                      res, 1, dst),
                                  res),
                              res, w)])

\* Inc8 / Inc16: src is the constant 1; no carry setter is called
op_Inc(c, op, w) ==
    Bind(read_parameter_value(c, op.dst), LAMBDA dst :
        LET res == (dst + 1) % USizeMod
        IN  [write_parameter_w(c, op, res, w) EXCEPT
                !.flags = set_parity(
                              set_auxiliary(
                                  set_zero_w(
                                      set_sign_w(
                                          set_overflow_add_w(@, res, 1, dst, w),
                                          res, w),
                                      res, w),
                                  res, 1, dst),
                              res)])

\* a & b, a | b and a ^ b on usize
RECURSIVE Bitwise(_, _, _)
Bitwise(k, a, b) ==
    IF a = 0 /\ b = 0 THEN 0
    ELSE (CASE k = "and" -> (a % 2) * (b % 2)
            [] k = "or" -> IF a % 2 = 1 \/ b % 2 = 1 THEN 1 ELSE 0
            [] k = "xor" -> ((a % 2) + (b % 2)) % 2)
         + 2 * Bitwise(k, a \div 2, b \div 2)

\* carry_val: the carry flag as 0 or 1
carry_val(f) == IF f.carry THEN 1 ELSE 0

\* the low w bits of x << n
ShlLow(x, n, w) == IF n >= w THEN 0 ELSE (x % (2 ^ (w - n))) * (2 ^ n)

\* x >> n on usize, for x below 2^30
ShrU(x, n) == IF n >= 30 THEN 0 ELSE x \div (2 ^ n)

\* u8::rotate_left / u16::rotate_left: the count is taken modulo the width
rotate_left(x, n, w) == ShlLow(x, n % w, w) + ShrU(x, w - (n % w))

rotate_right(x, n, w) == rotate_left(x, w - (n % w), w)

\* Rol8, Rol16 once res is computed: OF only for count 1, CF always
rol(c, op, w, res, count) ==
    [write_parameter_w(c, op, res, w) EXCEPT
        !.flags = [@ EXCEPT
            !.overflow = IF count = 1 THEN Bit(res, 0) # Bit(res, w - 1) ELSE @,
            !.carry = Bit(res, 0) # 0]]

op_Rol(c, op, w) ==
    Bind(read_parameter_value(c, op.src) % 32, LAMBDA count :
        rol(c, op, w,
            rotate_left(read_parameter_value(c, op.dst) % (2 ^ w), count, w), count))

\* Ror8, Ror16 once res is computed
ror(c, op, w, res, count) ==
    [write_parameter_w(c, op, res, w) EXCEPT
        !.flags = [@ EXCEPT
            !.overflow = IF count = 1 THEN Bit(res, w - 2) # Bit(res, w - 1) ELSE @,
            !.carry = Bit(res, w - 1) # 0]]

op_Ror(c, op, w) ==
    Bind(read_parameter_value(c, op.src) % 32, LAMBDA count :
        ror(c, op, w,
            rotate_right(read_parameter_value(c, op.dst) % (2 ^ w), count, w), count))

\* Rcl8, Rcl16 in u8 / u16 arithmetic; `op1 << 8` on a u8 panics under
\* overflow checks and shifts by 8 & 7 = 0 without them
rcl(c, op, w, op1, count) ==
    IF count = 0 THEN c
    ELSE IF w = 8 /\ count = 8 /\ overflow_checks THEN Panic(c)
    ELSE Bind(IF count = 1 THEN Bitwise("or", ShlLow(op1, 1, w), carry_val(c.flags))
              ELSE IF count = 16
                   THEN Bitwise("or", ShlLow(carry_val(c.flags), 15, w), ShrU(op1, 1))
              ELSE Bitwise("or", Bitwise("or", ShlLow(op1, count % w, w),
                                               ShlLow(carry_val(c.flags), count - 1, w)),
                                 ShrU(op1, w + 1 - count)),
              LAMBDA res :
                [write_parameter_w(c, op, res, w) EXCEPT
                    !.flags = [@ EXCEPT
                        !.carry = Bit(op1, w - count) # 0,
                        !.overflow = Bit(op1, w - count) # Bit(op1, w - 1)]])

op_Rcl(c, op, w) ==
    rcl(c, op, w, read_parameter_value(c, op.dst) % (2 ^ w),
        (read_parameter_value(c, op.src) % 32) % (w + 1))

\* Rcr8, Rcr16 in usize arithmetic; only the low w bits of res are read
rcr(c, op, w, op1, count) ==
    IF count = 0 THEN c
    ELSE Bind(Bitwise("or", Bitwise("or", ShrU(op1, count),
                                          ShlLow(carry_val(c.flags), w - count, w)),
                            ShlLow(op1, w + 1 - count, w)),
              LAMBDA res :
                [write_parameter_w(c, op, res, w) EXCEPT
                    !.flags = [@ EXCEPT
                        !.carry = Bit(op1, count - 1) # 0,
                        !.overflow = Bit(res, w - 1) # Bit(res, w - 2)]])

op_Rcr(c, op, w) ==
    rcr(c, op, w, read_parameter_value(c, op.dst),
        (read_parameter_value(c, op.src) % 32) % (w + 1))

\* Sar8 (count & 0x7), Sar16 (count & 0xF): dst.rotate_right(count), or-ed
\* with 0xFF / 0xFFFF moved left when the sign bit is set; the bits the
\* rotate moves to the top of the usize are never read
sar(c, op, w, dst, count) ==
    IF count = 0 THEN c
    ELSE Bind(IF Bit(dst, w - 1) # 0
              THEN Bitwise("or", ShrU(dst, count), (2 ^ w - 1) * (2 ^ (w - count)))
              ELSE ShrU(dst, count),
              LAMBDA res :
                [write_parameter_w(c, op, res, w) EXCEPT
                    !.flags = SZP([@ EXCEPT
                        !.carry = Bit(dst % (2 ^ w), count - 1) # 0,
                        !.overflow = IF count = 1 THEN FALSE ELSE @], res, w)])

op_Sar(c, op, w) ==
    sar(c, op, w, read_parameter_value(c, op.dst),
        read_parameter_value(c, op.src) % w)

\* Shl8, Shl16 once res = dst.wrapping_shl(count) is computed (its low 16
\* bits): CF is bit w-1 of res, OF for count 1 is that CF xor bit w-1 of res
shl(c, op, w, res, count) ==
    IF count = 0 THEN c
    ELSE [write_parameter_w(c, op, res, w) EXCEPT
            !.flags = SZP([@ EXCEPT
                !.carry = Bit(res, w - 1) # 0,
                !.overflow = IF count = 1 THEN Bit(res, w - 1) # Bit(res, w - 1)
                             ELSE @], res, w)]

op_Shl(c, op, w) ==
    Bind(read_parameter_value(c, op.src) % 32, LAMBDA count :
        shl(c, op, w, ShlLow(read_parameter_value(c, op.dst), count, 16), count))

\* Shr8, Shr16: CF is bit count-1 of dst, OF is the top bit of dst
shr(c, op, w, dst, count) ==
    IF count = 0 THEN c
    ELSE [write_parameter_w(c, op, ShrU(dst, count), w) EXCEPT
            !.flags = SZP([@ EXCEPT
                !.carry = (ShrU(dst, count - 1) % 2) # 0,
                !.overflow = Bit(dst, w - 1) # 0], ShrU(dst, count), w)]

op_Shr(c, op, w) ==
    shr(c, op, w, read_parameter_value(c, op.dst),
        read_parameter_value(c, op.src) % 32)

\* Add8, Add16: src and dst as u8 / u16, res = src + dst on usize
add(c, op, w, src, dst) ==
    Bind(src + dst, LAMBDA res :
        [write_parameter_w(c, op, res, w) EXCEPT
            !.flags = set_overflow_add_w(
                          set_sign_w(
                              set_zero_w(
                                  set_auxiliary(set_parity(set_carry_w(@, res, w), res),
                                                res, src, dst),
                                  res, w),
                              res, w),
                          res, src, dst, w)])

op_Add(c, op, w) ==
    add(c, op, w, read_parameter_value(c, op.src) % (2 ^ w),
        read_parameter_value(c, op.dst) % (2 ^ w))

\* u16::from(al) + (param as u16): the sum panics under overflow checks when
\* it leaves u16 and wraps without them; -1 stands for the panic
adj_sum(al, param) ==
    IF al + (param % U16) >= U16 /\ overflow_checks THEN -1
    ELSE (al + (param % U16)) % U16

\* the first half of adj4: the low-nibble adjustment by param1
adj4_low(c, old_al, tmp) ==
    IF (old_al % 16) > 9 \/ c.flags.auxiliary_carry
    THEN IF tmp < 0 THEN Panic(c)
         ELSE [set_r8(c, "AL", tmp % 256) EXCEPT
                  !.flags = [@ EXCEPT !.carry = Bit(tmp, 8) # 0,
                                      !.auxiliary_carry = TRUE]]
    ELSE [c EXCEPT !.flags = [@ EXCEPT !.carry = FALSE, !.auxiliary_carry = FALSE]]

\* the second half of adj4: the high-nibble adjustment adds param2 to old_al
adj4_high(c1, old_al, old_cf, sum) ==
    IF c1.panicked THEN c1
    ELSE IF old_al > 153 \/ old_cf
    THEN IF sum < 0 THEN Panic(c1)
         ELSE [set_r8(c1, "AL", sum % 256) EXCEPT !.flags.carry = TRUE]
    ELSE c1

\* adj4, used by daa and das
adj4(c, param1, param2) ==
    Bind(get_r8(c, "AL"), LAMBDA old_al :
        adj4_high(adj4_low(c, old_al, adj_sum(old_al, param1)),
                  old_al, c.flags.carry, adj_sum(old_al, param2)))

op_Daa(c, op) == adj4(c, 6, 96)

op_Das(c, op) == adj4(c, -6, -96)

\* the address of a pointer operand, used by LEA, LDS, LES
read_parameter_address(c, p) ==
    CASE p.t = "Ptr16Amode" -> amode16(c, p.amode)
      [] p.t \in {"Ptr16AmodeS8", "Ptr16AmodeS16"} ->
            (amode16(c, p.amode) + (p.imm % USizeMod)) % USizeMod
      [] p.t = "Ptr16" -> p.imm
      [] OTHER -> 0

\* Lds, Les: the segment register gets read_parameter_address as u16, the
\* destination gets read_parameter_value as u16
load_far(c, op, sr) ==
    Bind(read_parameter_value(c, op.src) % U16, LAMBDA val :
        write_parameter_u16(set_sr(c, sr, read_parameter_address(c, op.src) % U16),
                            op.segment_prefix, op.dst, val))

op_Lds(c, op) == load_far(c, op, "DS")

op_Les(c, op) == load_far(c, op, "ES")

\* Movsx16: the source as u8, plus 0xFF00 when its bit 7 is set
op_Movsx16(c, op) ==
    Bind(read_parameter_value(c, op.src) % 256, LAMBDA src :
        write_parameter_u16(c, op.segment_prefix, op.dst,
                            IF Bit(src, 7) # 0 THEN src + 65280 ELSE src))

\* Movzx16: the arm has the same body as Movsx16
op_Movzx16(c, op) ==
    Bind(read_parameter_value(c, op.src) % 256, LAMBDA src :
        write_parameter_u16(c, op.segment_prefix, op.dst,
                            IF Bit(src, 7) # 0 THEN src + 65280 ELSE src))

\* the body of the And, Or and Xor arms once res is computed: OF and CF are
\* cleared, SF, ZF and PF follow the result, and the result is written back
logic(c, op, w, res) ==
    [write_parameter_w(c, op, res, w) EXCEPT
        !.flags = SZP([@ EXCEPT !.overflow = FALSE, !.carry = FALSE], res, w)]

op_And(c, op, w) ==
    logic(c, op, w, Bitwise("and", read_parameter_value(c, op.dst),
                                   read_parameter_value(c, op.src)))

op_Or(c, op, w) ==
    logic(c, op, w, Bitwise("or", read_parameter_value(c, op.dst),
                                  read_parameter_value(c, op.src)))

op_Xor(c, op, w) ==
    logic(c, op, w, Bitwise("xor", read_parameter_value(c, op.dst),
                                   read_parameter_value(c, op.src)))

\* Test8 / Test16: only set_sign, set_zero and set_parity are called
op_Test(c, op, w) ==
    [c EXCEPT !.flags = SZP(@, Bitwise("and", read_parameter_value(c, op.dst),
                                              read_parameter_value(c, op.src)), w)]

\* the body of the Neg8 / Neg16 arm once the operand is read: src is the
\* constant 0, res = Wrapping(src) - Wrapping(dst), and `if src == 0` clears
\* the carry
neg(c, op, w, src, dst) ==
    LET res == (src - dst) % USizeMod
    IN  [write_parameter_w(c, op, res, w) EXCEPT
            !.flags = set_parity(
                          set_auxiliary(
                              set_zero_w(
                                  set_sign_w(
                                      set_overflow_sub_w([@ EXCEPT !.carry = (src # 0)],
                                                         res, src, dst, w),
                                      res, w),
                                  res, w),
                              res, src, dst),
                          res)]

op_Neg(c, op, w) == neg(c, op, w, 0, read_parameter_value(c, op.dst))

\* the opcode tags whose arm only prints "XXX impl"
StubCommands == {"Arpl", "Bound", "Insb", "Shld"}

\* an unimplemented instruction treated as an error
op_unhandled_fatal(c, op) == [c EXCEPT !.fatal_error = TRUE]

\* the arm `_ =>` of match op.command and the stub arms: the instruction is
\* only logged
op_unhandled(c, op) == c

execute_command(c, op) ==
    CASE op.command = "Adc8" -> op_Adc8(c, op)
      [] op.command = "Adc16" -> op_Adc16(c, op)
      [] op.command = "CallNear" -> op_CallNear(c, op)
      [] op.command = "Cmpsw" -> op_Cmpsw(c, op)
      [] op.command = "Div8" -> op_Div8(c, op)
      [] op.command = "Div16" -> op_Div16(c, op)
      [] op.command = "Enter" -> op_Enter(c, op)
      [] op.command = "Hlt" -> c
      [] op.command = "Idiv8" -> op_Idiv8(c, op)
      [] op.command = "Idiv16" -> op_Idiv16(c, op)
      [] op.command = "In8" -> op_In8(c, op)
      [] op.command = "Int" -> op_Int(c, op)
      [] op.command \in JccCommands -> op_Jcc(c, op)
      [] op.command = "Leave" -> op_Leave(c, op)
      [] op.command = "Lodsb" -> op_Lodsb(c, op)
      [] op.command = "Lodsw" -> op_Lodsw(c, op)
      [] op.command = "Movsb" -> op_Movsb(c, op)
      [] op.command = "Movsw" -> op_Movsw(c, op)
      [] op.command = "Nop" -> c
      [] op.command = "Mov8" -> op_Mov8(c, op)
      [] op.command = "Mov16" -> op_Mov16(c, op)
      [] op.command = "Out8" -> op_Out8(c, op)
      [] op.command = "Out16" -> op_Out16(c, op)
      [] op.command = "Outsb" -> op_Outsb(c, op)
      [] op.command = "Outsw" -> op_Outsw(c, op)
      [] op.command = "Pop16" -> op_Pop16(c, op)
      [] op.command = "Popa" -> op_Popa(c, op)
      [] op.command = "Pusha" -> op_Pusha(c, op)
      [] op.command = "Push16" -> op_Push16(c, op)
      [] op.command = "Retf" -> op_Retf(c, op)
      [] op.command = "Retn" -> op_Retn(c, op)
      [] op.command = "Stosb" -> op_Stosb(c, op)
      [] op.command = "Stosw" -> op_Stosw(c, op)
      [] op.command = "Neg8" -> op_Neg(c, op, 8)
      [] op.command = "Neg16" -> op_Neg(c, op, 16)
      [] op.command = "And8" -> op_And(c, op, 8)
      [] op.command = "And16" -> op_And(c, op, 16)
      [] op.command = "Or8" -> op_Or(c, op, 8)
      [] op.command = "Or16" -> op_Or(c, op, 16)
      [] op.command = "Xor8" -> op_Xor(c, op, 8)
      [] op.command = "Xor16" -> op_Xor(c, op, 16)
      [] op.command = "Test8" -> op_Test(c, op, 8)
      [] op.command = "Test16" -> op_Test(c, op, 16)
      [] op.command = "Cmp8" -> op_Cmp8(c, op)
      [] op.command = "Cmp16" -> op_Cmp16(c, op)
      [] op.command = "Sub8" -> op_Sub(c, op, 8)
      [] op.command = "Sub16" -> op_Sub(c, op, 16)
      [] op.command = "Dec8" -> op_Dec(c, op, 8)
      [] op.command = "Dec16" -> op_Dec(c, op, 16)
      [] op.command = "Inc8" -> op_Inc(c, op, 8)
      [] op.command = "Inc16" -> op_Inc(c, op, 16)
      [] op.command = "Movsx16" -> op_Movsx16(c, op)
      [] op.command = "Movzx16" -> op_Movzx16(c, op)
      [] op.command = "Lds" -> op_Lds(c, op)
      [] op.command = "Les" -> op_Les(c, op)
      [] op.command = "Rol8" -> op_Rol(c, op, 8)
      [] op.command = "Rol16" -> op_Rol(c, op, 16)
      [] op.command = "Ror8" -> op_Ror(c, op, 8)
      [] op.command = "Ror16" -> op_Ror(c, op, 16)
      [] op.command = "Rcl8" -> op_Rcl(c, op, 8)
      [] op.command = "Rcl16" -> op_Rcl(c, op, 16)
      [] op.command = "Rcr8" -> op_Rcr(c, op, 8)
      [] op.command = "Rcr16" -> op_Rcr(c, op, 16)
      [] op.command = "Sar8" -> op_Sar(c, op, 8)
      [] op.command = "Sar16" -> op_Sar(c, op, 16)
      [] op.command = "Shl8" -> op_Shl(c, op, 8)
      [] op.command = "Shl16" -> op_Shl(c, op, 16)
      [] op.command = "Shr8" -> op_Shr(c, op, 8)
      [] op.command = "Shr16" -> op_Shr(c, op, 16)
      [] op.command = "Add8" -> op_Add(c, op, 8)
      [] op.command = "Add16" -> op_Add(c, op, 16)
      [] op.command = "Daa" -> op_Daa(c, op)
      [] op.command = "Das" -> op_Das(c, op)
      [] op.command \in StubCommands -> op_unhandled(c, op)
      [] OTHER -> op_unhandled(c, op)

\* match op.repeat with REPE and REPNE treated as plain REP: the zero flag is
\* never consulted
repeat_ignoring_zero(c, op, start_ip) ==
    LET cx == (get_r16(c, "CX") - 1) % U16
        c1 == set_r16(c, "CX", cx)
    IN  IF op.repeat \in {"Rep", "Repe", "Repne"}
        THEN IF cx # 0 THEN [c1 EXCEPT !.ip = start_ip] ELSE c1
        ELSE c

\* match op.repeat, after the command has run
repeat(c, op, start_ip) ==
    LET cx == (get_r16(c, "CX") - 1) % U16
        c1 == set_r16(c, "CX", cx)
    IN  CASE op.repeat = "Rep" ->
                IF cx # 0 THEN [c1 EXCEPT !.ip = start_ip] ELSE c1
          [] op.repeat = "Repe" ->
                IF cx # 0 /\ c1.flags.zero THEN [c1 EXCEPT !.ip = start_ip] ELSE c1
          [] op.repeat = "Repne" ->
                IF cx # 0 /\ ~c1.flags.zero THEN [c1 EXCEPT !.ip = start_ip] ELSE c1
          [] OTHER -> c

\* execute with the error flag cleared on entry, as if each instruction
\* started from a clean error state
execute_clearing_fatal(c, op) ==
    LET start_ip == c.ip
        ip1 == c.ip + op.length
    IN  IF ip1 >= U16 /\ overflow_checks THEN Panic(c)
        ELSE LET c1 == [c EXCEPT !.ip = ip1 % U16,
                                 !.fatal_error = FALSE,
                                 !.instruction_count = @ + 1,
                                 !.cycle_count = @ + 1]
             IN  Then(execute_command(c1, op),
                      LAMBDA c2 : repeat(c2, op, start_ip))

\* execute without the cycle_count increment
execute_uncounted(c, op) ==
    LET start_ip == c.ip
        ip1 == c.ip + op.length
    IN  IF ip1 >= U16 /\ overflow_checks THEN Panic(c)
        ELSE LET c1 == [c EXCEPT !.ip = ip1 % U16,
                                 !.instruction_count = @ + 1]
             IN  Then(execute_command(c1, op),
                      LAMBDA c2 : repeat(c2, op, start_ip))

\* CPU::execute.  self.ip += length is a plain +=.
execute(c, op) ==
    LET start_ip == c.ip
        ip1 == c.ip + op.length
    IN  IF ip1 >= U16 /\ overflow_checks THEN Panic(c)
        ELSE LET c1 == [c EXCEPT !.ip = ip1 % U16,
                                 !.instruction_count = @ + 1,
                                 !.cycle_count = @ + 1]
             IN  Then(execute_command(c1, op),
                      LAMBDA c2 : repeat(c2, op, start_ip))

---------------------------------------------------------------------------
(* Fetch and the single-instruction entry points *)

UnknownOp == Ins("Unknown", NoParam, NoParam, "None", 1)

\* Decoder::get_instruction at CS:IP
get_instruction(c) ==
    LET a == s_translate(get_sr(c, "CS"), c.ip)
    IN  IF a \in DOMAIN code THEN code[a] ELSE UnknownOp

\* GPU::progress_scanline
progress_scanline(c) ==
    IF c.scanline + 1 > gpu_width
    THEN [c EXCEPT !.scanline = 0]
    ELSE [c EXCEPT !.scanline = @ + 1]

\* pit.counter0.dec()
pit_counter0_dec(c) == [c EXCEPT !.pit_counter0 = (@ - 1) % U16]

\* the two `if self.cycle_count % 100 == 0` blocks that end execute_instruction
timing(c) ==
    LET c1 == IF c.cycle_count % 100 = 0 THEN progress_scanline(c) ELSE c
    IN  IF c1.cycle_count % 100 = 0 THEN pit_counter0_dec(c1) ELSE c1

\* execute_instruction stepping over the bytes it could not decode
execute_instruction_skipping(c) ==
    LET op == get_instruction(c)
        skipped == [c EXCEPT !.fatal_error = TRUE, !.ip = (@ + op.length) % U16]
        c1 == CASE op.command = "Unknown" -> skipped
                [] op.command = "Invalid" -> skipped
                [] OTHER -> execute(c, op)
    IN  Then(c1, LAMBDA c2 : timing(c2))

\* CPU::execute_instruction
execute_instruction(c) ==
    LET op == get_instruction(c)
        c1 == CASE op.command = "Unknown" -> [c EXCEPT !.fatal_error = TRUE]
                [] op.command = "Invalid" -> [c EXCEPT !.fatal_error = TRUE]
                [] OTHER -> execute(c, op)
    IN  Then(c1, LAMBDA c2 : timing(c2))

\* hw.pit.update: the tick counter moves on
pit_update(c) ==
    [c EXCEPT !.pit_timer0_count =
        IF @.lo = U16 - 1 THEN [hi |-> (@.hi + 1) % U16, lo |-> 0]
        ELSE [hi |-> @.hi, lo |-> @.lo + 1]]

\* CPU::handle_interrupt: the host handler of the vector
handle_interrupt(c, n) == int(c, n)

\* Machine::execute_instruction; tick: 55 ms have passed since the last update
Machine_execute_instruction(c, tick) ==
    LET c0 == IF tick THEN pit_update(c) ELSE c
        cs == get_sr(c0, "CS")
        ip == c0.ip
        c1 == IF cs = 61440 THEN handle_interrupt(c0, ip % 256) ELSE c0
        op == get_instruction([c1 EXCEPT !.ip = ip, !.sreg16["CS"] = cs])
        c2 == CASE op.command = "Unknown" -> [c1 EXCEPT !.fatal_error = TRUE]
                [] op.command = "Invalid" -> [c1 EXCEPT !.fatal_error = TRUE]
                [] OTHER -> execute(c1, op)
    IN  Then(c2, LAMBDA c3 :
                IF c3.cycle_count % 100 = 0 THEN progress_scanline(c3) ELSE c3)

---------------------------------------------------------------------------
(* The first generation, src/cpu.rs: decoder, memory and executor in one    *)
(* CPU.  It reads the program from memory and addresses memory by flat       *)
(* offset.                                                                   *)

\* seg_offs_as_flat: no wrap at 1 MB
seg_offs_as_flat(seg, off) == seg * 16 + off

\* self.memory.memory[pos]
g1_peek_u8_at(c, pos) == MemRead(c.mem, pos)

g1_peek_u16_at(c, pos) == g1_peek_u8_at(c, pos) + 256 * g1_peek_u8_at(c, pos + 1)

\* the length of Memory.memory: 1 MiB
memory_len == 2 ^ 20

\* write_u8 (no breakpoint is set); an index past the end of the Vec panics
g1_write_u8(c, offset, data) ==
    IF offset < 0 \/ offset >= memory_len THEN Panic(c)
    ELSE [c EXCEPT !.mem = MemWrite(@, offset, data)]

g1_write_u16(c, offset, data) ==
    g1_write_u8(g1_write_u8(c, offset, data % 256), offset + 1, data \div 256)

g1_push16(c, data) ==
    LET sp == (get_r16(c, "SP") - 2) % U16
        c1 == set_r16(c, "SP", sp)
    IN  g1_write_u16(c1, seg_offs_as_flat(get_sr(c1, "SS"), sp), data)

\* pop16: the pair <<data, cpu after>>; peek_u16_at indexes pos and pos + 1
g1_pop16(c) ==
    LET offset == seg_offs_as_flat(get_sr(c, "SS"), get_r16(c, "SP"))
    IN  IF offset + 1 >= memory_len THEN <<0, Panic(c)>>
        ELSE <<g1_peek_u16_at(c, offset),
               set_r16(c, "SP", (get_r16(c, "SP") + 2) % U16)>>

g1_PopInto(c, r) ==
    LET p == g1_pop16(c)
    IN  IF p[2].panicked THEN p[2] ELSE set_r16(p[2], r, p[1])

\* Popa: AX, CX, DX, BX, then `SP += 2`, then BP, SI, DI
g1_op_Popa(c) ==
    LET c4 == g1_PopInto(g1_PopInto(g1_PopInto(g1_PopInto(c, "AX"), "CX"), "DX"), "BX")
    IN  Then(CheckedR16(c4, "SP", get_r16(c4, "SP") + 2),
             LAMBDA c5 : g1_PopInto(g1_PopInto(g1_PopInto(c5, "BP"), "SI"), "DI"))

g1_op_Pusha(c) ==
    LET v(r) == get_r16(c, r)
    IN  g1_push16(g1_push16(g1_push16(g1_push16(g1_push16(g1_push16(g1_push16(g1_push16(c,
            v("AX")), v("CX")), v("DX")), v("BX")), v("SP")), v("BP")), v("SI")), v("DI"))

\* read_u8: the byte at CS:IP, then `self.ip += 1` (a plain +=).
\* The pair <<byte, cpu after>>.
g1_read_u8(c) ==
    LET b == g1_peek_u8_at(c, seg_offs_as_flat(get_sr(c, "CS"), c.ip))
    IN  <<b, IF c.ip + 1 >= U16
             THEN IF overflow_checks THEN Panic(c) ELSE [c EXCEPT !.ip = 0]
             ELSE [c EXCEPT !.ip = @ + 1]>>

\* read_rel8: (self.ip as i16 + i16::from(val)) as u16, a plain + on i16.
\* The pair <<target, cpu after>>.
g1_read_rel8(c) ==
    LET r == g1_read_u8(c)
        val == IF r[1] >= 128 THEN r[1] - 256 ELSE r[1]
        sum == ToI16(r[2].ip) + val
    IN  IF r[2].panicked THEN <<0, r[2]>>
        ELSE IF sum > 32767 \/ sum < -32768
        THEN IF overflow_checks THEN <<0, Panic(r[2])>> ELSE <<sum % U16, r[2]>>
        ELSE <<sum % U16, r[2]>>

g1_read_u16(c) ==
    LET lo == g1_read_u8(c)
        hi == g1_read_u8(lo[2])
    IN  IF lo[2].panicked THEN <<0, lo[2]>> ELSE <<(hi[1] * 256) + lo[1], hi[2]>>

\* read_s8 / read_s16: the value read, as i8 / i16
g1_read_s8(c) ==
    LET r == g1_read_u8(c) IN <<IF r[1] >= 128 THEN r[1] - 256 ELSE r[1], r[2]>>

g1_read_s16(c) ==
    LET r == g1_read_u16(c) IN <<ToI16(r[1]), r[2]>>

\* read_mod_reg_rm: md = b >> 6, reg = (b >> 3) & 7, rm = b & 7
g1_read_mod_reg_rm(c) ==
    LET r == g1_read_u8(c)
    IN  <<[md |-> r[1] \div 64, reg |-> (r[1] \div 8) % 8, rm |-> r[1] % 8], r[2]>>

\* rm8: the pair <<parameter, cpu after>>; registers and addressing modes are
\* the indices of the encoding
g1_rm8(c, seg, rm, md) ==
    CASE md = 0 /\ rm = 6 ->
            LET r == g1_read_u16(c) IN <<Ptr8(seg, r[1]), r[2]>>
      [] md = 0 /\ rm # 6 -> <<PtrAmode("Ptr8Amode", seg, rm, 0), c>>
      [] md = 1 ->
            LET r == g1_read_s8(c) IN <<PtrAmode("Ptr8AmodeS8", seg, rm, r[1]), r[2]>>
      [] md = 2 ->
            LET r == g1_read_s16(c) IN <<PtrAmode("Ptr8AmodeS16", seg, rm, r[1]), r[2]>>
      [] OTHER -> <<Reg8(rm), c>>

\* r8_rm8 / rm8_r8: <<dst, src, cpu after>>
g1_r8_rm8(c, seg) ==
    Bind(g1_read_mod_reg_rm(c), LAMBDA x :
        IF x[2].panicked THEN <<NoParam, NoParam, x[2]>>
        ELSE Bind(g1_rm8(x[2], seg, x[1].rm, x[1].md), LAMBDA m :
                 <<Reg8(x[1].reg), m[1], m[2]>>))

g1_rm8_r8(c, seg) ==
    Bind(g1_read_mod_reg_rm(c), LAMBDA x :
        IF x[2].panicked THEN <<NoParam, NoParam, x[2]>>
        ELSE Bind(g1_rm8(x[2], seg, x[1].rm, x[1].md), LAMBDA m :
                 <<m[1], Reg8(x[1].reg), m[2]>>))

\* segment: Segment::CS and Segment::Default are both CS
g1_segment(c, seg) ==
    CASE seg \in {"CS", "Default"} -> get_sr(c, "CS")
      [] OTHER -> get_sr(c, seg)

g1_amode16(c, idx) ==
    CASE idx = 0 -> (get_r16(c, "BX") + get_r16(c, "SI")) % U16
      [] idx = 1 -> (get_r16(c, "BX") + get_r16(c, "DI")) % U16
      [] idx = 2 -> (get_r16(c, "BP") + get_r16(c, "SI")) % U16
      [] idx = 3 -> (get_r16(c, "BP") + get_r16(c, "DI")) % U16
      [] idx = 4 -> get_r16(c, "SI")
      [] idx = 5 -> get_r16(c, "DI")
      [] idx = 6 -> get_r16(c, "BP")
      [] idx = 7 -> get_r16(c, "BX")
      [] OTHER -> 0

\* the general registers in index order
g1_R16Names == <<"AX", "CX", "DX", "BX", "SP", "BP", "SI", "DI">>

\* Parameter::Reg8(r): r & 3 picks the register, r & 4 its high byte
g1_get_r8(c, r) ==
    LET w == get_r16(c, g1_R16Names[1 + (r % 4)])
    IN  IF ((r \div 4) % 2) = 0 THEN w % 256 ELSE w \div 256

g1_set_r8(c, r, data) ==
    LET n == g1_R16Names[1 + (r % 4)]
        w == get_r16(c, n)
    IN  IF ((r \div 4) % 2) = 0
        THEN set_r16(c, n, ((w \div 256) * 256) + data)
        ELSE set_r16(c, n, (data * 256) + (w % 256))

\* the index read_parameter_value uses for a byte operand in memory, -1
\* when computing or using it panics: the displacement is added to the flat
\* offset with a plain + on usize
g1_ReadIndex(c, p) ==
    LET base == seg_offs_as_flat(g1_segment(c, p.seg),
                                 IF p.t = "Ptr8" THEN p.imm ELSE g1_amode16(c, p.amode))
        pos == IF p.t \in {"Ptr8", "Ptr8Amode"} THEN base
               ELSE IF p.imm < 0 /\ overflow_checks THEN -1
               ELSE base + p.imm
    IN  IF pos < 0 \/ pos >= memory_len THEN -1 ELSE pos

\* the index write_parameter_u8 uses: the displacement is added to the flat
\* offset with Wrapping
g1_WriteIndex(c, p) ==
    LET base == seg_offs_as_flat(g1_segment(c, p.seg),
                                 IF p.t = "Ptr8" THEN p.imm ELSE g1_amode16(c, p.amode))
        pos == IF p.t \in {"Ptr8", "Ptr8Amode"} THEN base ELSE base + p.imm
    IN  IF pos < 0 \/ pos >= memory_len THEN -1 ELSE pos

\* read_parameter_value: the pair <<value, cpu after>>
g1_read_parameter_value(c, p) ==
    CASE p.t \in {"Imm8", "Imm16"} -> <<p.imm, c>>
      [] p.t = "Reg8" -> <<g1_get_r8(c, p.r), c>>
      [] p.t = "Reg16" -> <<get_r16(c, g1_R16Names[1 + p.r]), c>>
      [] p.t \in {"Ptr8", "Ptr8Amode", "Ptr8AmodeS8", "Ptr8AmodeS16"} ->
            LET pos == g1_ReadIndex(c, p)
            IN  IF pos < 0 THEN <<0, Panic(c)>> ELSE <<g1_peek_u8_at(c, pos), c>>
      [] OTHER -> <<0, c>>

g1_write_parameter_u8(c, p, data) ==
    CASE p.t = "Reg8" -> g1_set_r8(c, p.r, data)
      [] p.t \in {"Ptr8", "Ptr8Amode", "Ptr8AmodeS8", "Ptr8AmodeS16"} ->
            g1_write_u8(c, g1_WriteIndex(c, p), data)
      [] OTHER -> c

\* the flags of an 8-bit addition res = dst + src
add8_flags(f, res, src, dst) ==
    set_parity([f EXCEPT
        !.overflow = Bit(src, 7) = Bit(dst, 7) /\ Bit(res, 7) # Bit(dst, 7),
        !.sign = (Bit(res, 7) = 1),
        !.zero = (res % 256 = 0),
        !.auxiliary_carry = ((src % 16) + (dst % 16)) >= 16,
        !.carry = (Bit(res, 8) = 1)], res)

\* out_u8: output byte to I/O port
g1_out_u8(c, p, data) ==
    LET dst == CASE p.t = "Reg16" -> get_r16(c, g1_R16Names[1 + p.r])
                 [] p.t = "Imm8" -> p.imm
                 [] OTHER -> 0
        g == c.gpu
    IN  CASE dst = 968 -> [c EXCEPT !.gpu.dac_index = data]
          [] dst = 969 ->
                LET g1 == IF g.dac_color > 2
                          THEN [PaletteSet(g, g.dac_index, g.dac_current_palette) EXCEPT
                                    !.dac_color = 0,
                                    !.dac_index = (@ + 1) % 256]
                          ELSE g
                IN  [c EXCEPT !.gpu =
                        [g1 EXCEPT !.dac_current_palette[g1.dac_color + 1] = (data * 4) % 256,
                                   !.dac_color = @ + 1]]
          [] OTHER -> c

\* in_port: read byte from I/O port
g1_in_port(c, port) ==
    IF port = 986 THEN (IF c.scanline = 0 THEN 1 ELSE 0) ELSE 0

g1_op_Out8(c, op) ==
    LET r == g1_read_parameter_value(c, op.src)
    IN  g1_out_u8(r[2], op.dst, r[1] % 256)

g1_op_In8(c, op) ==
    Bind(g1_read_parameter_value(c, op.src), LAMBDA r :
        g1_write_parameter_u8(r[2], op.dst, g1_in_port(r[2], r[1] % U16)))

\* Push16 / Pop16 of a general register
g1_op_Push16(c, op) == g1_push16(c, get_r16(c, g1_R16Names[1 + op.dst.r]))

g1_op_Pop16(c, op) == g1_PopInto(c, g1_R16Names[1 + op.dst.r])

g1_op_Mov8(c, op) ==
    Bind(g1_read_parameter_value(c, op.src), LAMBDA r :
        IF r[2].panicked THEN r[2]
        ELSE g1_write_parameter_u8(r[2], op.dst, r[1] % 256))

g1_op_Add8(c, op) ==
    Bind(g1_read_parameter_value(c, op.src), LAMBDA s1 :
        IF s1[2].panicked THEN s1[2]
        ELSE Bind(g1_read_parameter_value(s1[2], op.dst), LAMBDA d1 :
                 IF d1[2].panicked THEN d1[2]
                 ELSE LET res == d1[1] + s1[1]
                      IN  g1_write_parameter_u8(
                              [d1[2] EXCEPT !.flags = add8_flags(@, res, s1[1], d1[1])],
                              op.dst, res % 256)))

\* opcodes 70..79 and 7C..7F
g1_JccOf(b) ==
    CASE b = 112 -> "Jo" [] b = 113 -> "Jno" [] b = 114 -> "Jc" [] b = 115 -> "Jnc"
      [] b = 116 -> "Jz" [] b = 117 -> "Jnz" [] b = 118 -> "Jna" [] b = 119 -> "Ja"
      [] b = 120 -> "Js" [] b = 121 -> "Jns" [] b = 124 -> "Jl" [] b = 125 -> "Jnl"
      [] b = 126 -> "Jng" [] b = 127 -> "Jg"

\* opcodes F3 xx
g1_RepOf(b) ==
    CASE b = 110 -> "RepOutsb" [] b = 164 -> "RepMovsb" [] b = 165 -> "RepMovsw"
      [] b = 170 -> "RepStosb" [] b = 171 -> "RepStosw" [] OTHER -> "Unknown"

\* Instruction {segment, command, params}
g1_Ins(command, dst, src) == Ins(command, dst, src, "None", 0)

\* the first bytes decode_instruction has an arm for in this model
g1_Opcodes ==
    {0, 2, 136, 138, 96, 97, 144, 243, 228, 230, 236, 238} \cup (80 .. 95) \cup (112 .. 121) \cup (124 .. 127)
    \cup (176 .. 183)

\* first bytes with no arm in decode_instruction: 66, 67 and F0
g1_NoArm == {102, 103, 240}

\* the segment prefix arms 26, 2E, 36, 3E, 64, 65
g1_SegmentPrefixes == {38, 46, 54, 62, 100, 101}

\* an instruction with two operands decoded as <<dst, src, cpu after>>
g1_Ins2(command, x) == <<g1_Ins(command, x[1], x[2]), x[3]>>

\* decode_instruction(Segment::CS()): the pair <<instruction, cpu after>>.
\* An opcode with no arm stays Op::Unknown.
RECURSIVE g1_decode_instruction(_, _)
g1_decode_instruction(c, seg) ==
    LET r == g1_read_u8(c)
        b == r[1]
        c1 == r[2]
        \* the instruction of an arm that is not a segment prefix: segment = seg
        Op(d) == <<[d[1] EXCEPT !.segment_prefix = seg], d[2]>>
    IN  IF c1.panicked THEN <<g1_Ins("Unknown", NoParam, NoParam), c1>>
        ELSE CASE b = 0 -> Op(g1_Ins2("Add8", g1_rm8_r8(c1, seg)))
               [] b = 2 -> Op(g1_Ins2("Add8", g1_r8_rm8(c1, seg)))
               [] b = 38 -> g1_decode_instruction(c1, "ES")
               [] b = 46 -> g1_decode_instruction(c1, "CS")
               [] b = 54 -> g1_decode_instruction(c1, "SS")
               [] b = 62 -> g1_decode_instruction(c1, "DS")
               [] b = 100 -> g1_decode_instruction(c1, "FS")
               [] b = 101 -> g1_decode_instruction(c1, "GS")
               [] b = 136 -> Op(g1_Ins2("Mov8", g1_rm8_r8(c1, seg)))
               [] b = 138 -> Op(g1_Ins2("Mov8", g1_r8_rm8(c1, seg)))
               [] b \in 176 .. 183 ->
                     LET i == g1_read_u8(c1)
                     IN  Op(<<g1_Ins("Mov8", Reg8(b % 8), Imm8(i[1])), i[2]>>)
               [] b = 205 ->
                     LET i == g1_read_u8(c1)
                     IN  Op(<<g1_Ins("Int", Imm8(i[1]), NoParam), i[2]>>)
               [] b \in 80 .. 87 -> Op(<<g1_Ins("Push16", Reg16(b % 8), NoParam), c1>>)
               [] b \in 88 .. 95 -> Op(<<g1_Ins("Pop16", Reg16(b % 8), NoParam), c1>>)
               [] b = 96 -> Op(<<g1_Ins("Pusha", NoParam, NoParam), c1>>)
               [] b = 97 -> Op(<<g1_Ins("Popa", NoParam, NoParam), c1>>)
               [] b = 144 -> Op(<<g1_Ins("Nop", NoParam, NoParam), c1>>)
               [] b \in (112 .. 121) \cup (124 .. 127) ->
                     LET t == g1_read_rel8(c1)
                     IN  Op(<<g1_Ins(g1_JccOf(b), Imm16(t[1]), NoParam), t[2]>>)
               [] b = 228 ->
                     LET i == g1_read_u8(c1)
                     IN  Op(<<g1_Ins("In8", Reg8(0), Imm8(i[1])), i[2]>>)
               [] b = 230 ->
                     LET i == g1_read_u8(c1)
                     IN  Op(<<g1_Ins("Out8", Imm8(i[1]), Reg8(0)), i[2]>>)
               [] b = 236 -> Op(<<g1_Ins("In8", Reg8(0), Reg16(2)), c1>>)
               [] b = 238 -> Op(<<g1_Ins("Out8", Reg16(2), Reg8(0)), c1>>)
               [] b = 242 ->
                     LET r2 == g1_read_u8(c1)
                     IN  Op(<<g1_Ins(IF r2[1] = 174 THEN "RepneScasb" ELSE "Unknown",
                                     NoParam, NoParam), r2[2]>>)
               [] b = 243 ->
                     LET r2 == g1_read_u8(c1)
                     IN  Op(<<g1_Ins(g1_RepOf(r2[1]), NoParam, NoParam), r2[2]>>)
               [] OTHER -> Op(<<g1_Ins("Unknown", NoParam, NoParam), c1>>)

\* disasm_instruction: decode_instruction(Segment::Default) at CS:IP, the
\* length being the distance IP moved, and IP put back
g1_disasm_instruction(c) ==
    Bind(g1_decode_instruction(c, "Default"), LAMBDA d :
        <<[d[1] EXCEPT !.length = (d[2].ip - c.ip) % U16],
          IF d[2].panicked THEN d[2] ELSE [d[2] EXCEPT !.ip = c.ip]>>)

\* RepMovsb: src and dst are local flat offsets; SI and DI are not written.
\* The loop body runs before CX is looked at, and `CX -= 1` is a plain -=.
RECURSIVE g1_RepMovsbLoop(_, _, _)
g1_RepMovsbLoop(c, src, dst) ==
    LET c1 == g1_write_u8(c, dst, g1_peek_u8_at(c, src))
        c2 == CheckedR16(c1, "CX", get_r16(c1, "CX") - 1)
    IN  IF c2.panicked \/ get_r16(c2, "CX") = 0 THEN c2
        ELSE g1_RepMovsbLoop(c2, src + 1, dst + 1)

g1_op_RepMovsb(c) ==
    g1_RepMovsbLoop(c, seg_offs_as_flat(get_sr(c, "DS"), get_r16(c, "SI")),
                    seg_offs_as_flat(get_sr(c, "ES"), get_r16(c, "DI")))

g1_op_Jcc(c, op) ==
    IF JccTaken(op.command, c.flags) THEN [c EXCEPT !.ip = op.dst.imm] ELSE c

\* execute: instruction_count += 1, then match op.command
g1_execute(c, op) ==
    LET c1 == [c EXCEPT !.instruction_count = @ + 1]
    IN  CASE op.command = "Pusha" -> g1_op_Pusha(c1)
          [] op.command = "Popa" -> g1_op_Popa(c1)
          [] op.command = "Nop" -> c1
          [] op.command = "RepMovsb" -> g1_op_RepMovsb(c1)
          [] op.command = "Mov8" -> g1_op_Mov8(c1, op)
          [] op.command = "Push16" -> g1_op_Push16(c1, op)
          [] op.command = "Pop16" -> g1_op_Pop16(c1, op)
          [] op.command = "Add8" -> g1_op_Add8(c1, op)
          [] op.command = "In8" -> g1_op_In8(c1, op)
          [] op.command = "Out8" -> g1_op_Out8(c1, op)
          [] op.command \in JccCommands -> g1_op_Jcc(c1, op)
          [] OTHER -> c1

g1_execute_instruction(c) ==
    Bind(g1_decode_instruction(c, "CS"), LAMBDA d :
        Then(IF d[2].panicked THEN d[2]
             ELSE IF d[1].command = "Unknown" THEN [d[2] EXCEPT !.fatal_error = TRUE]
             ELSE g1_execute(d[2], d[1]),
             LAMBDA c2 :
                IF c2.instruction_count % 100 = 0 THEN progress_scanline(c2) ELSE c2))

\* one round of the loop of disassemble_block: disasm_instruction, then
\* `self.ip += op.length as u16` (a plain +=)
RECURSIVE g1_DisasmLoop(_, _)
g1_DisasmLoop(c, count) ==
    IF count = 0 \/ c.panicked THEN c
    ELSE Bind(g1_disasm_instruction(c), LAMBDA d :
             LET ip1 == d[2].ip + d[1].length
             IN  IF d[2].panicked THEN d[2]
                 ELSE IF ip1 >= U16 /\ overflow_checks THEN Panic(d[2])
                 ELSE g1_DisasmLoop([d[2] EXCEPT !.ip = ip1 % U16], count - 1))

\* disassemble_block: IP is moved to origin for the loop and put back after it
g1_disassemble_block(c, origin, count) ==
    Bind(g1_DisasmLoop([c EXCEPT !.ip = origin], count), LAMBDA c1 :
        IF c1.panicked THEN c1 ELSE [c1 EXCEPT !.ip = c.ip])

---------------------------------------------------------------------------
(* Encoder *)

\* Parameter::is_reg / is_imm / is_ptr
is_reg(p) == p.t \in {"Reg8", "Reg16", "SReg16"}

is_imm(p) == p.t \in {"Imm8", "Imm16", "ImmS8"}

is_ptr(p) ==
    p.t \in {"Ptr8", "Ptr16", "Ptr8Amode", "Ptr8AmodeS8", "Ptr8AmodeS16",
             "Ptr16Amode", "Ptr16AmodeS8", "Ptr16AmodeS16"}

\* ModRegRm::u8
ModRegRm_u8(md, reg, rm) == (md * 64) + (reg * 8) + rm

\* the outcome of an encoding function: the bytes, or a panic
Encoded(out) == [panic |-> FALSE, out |-> out]

EncodePanic == [panic |-> TRUE, out |-> <<>>]

\* encode_rm8: the ModRM byte of dst with src in the reg field, and the
\* displacement; the segment of the operand is not looked at
encode_rm8(dst, src) ==
    IF src.t # "Reg8" THEN EncodePanic
    ELSE CASE dst.t = "Ptr8" ->
                 Encoded(<<ModRegRm_u8(0, src.r, 6), dst.imm % 256, (dst.imm \div 256) % 256>>)
           [] dst.t = "Ptr8Amode" -> Encoded(<<ModRegRm_u8(0, src.r, dst.amode)>>)
           [] dst.t = "Ptr8AmodeS8" ->
                 Encoded(<<ModRegRm_u8(1, src.r, dst.amode), dst.imm % 256>>)
           [] dst.t = "Ptr8AmodeS16" ->
                 Encoded(<<ModRegRm_u8(2, src.r, dst.amode),
                           (dst.imm % U16) % 256, (dst.imm % U16) \div 256>>)
           [] dst.t = "Reg8" -> Encoded(<<ModRegRm_u8(3, src.r, dst.r)>>)
           [] OTHER -> EncodePanic

encode_r8_rm8(dst, src) == encode_rm8(src, dst)

encode_rm8_r8(dst, src) == encode_rm8(dst, src)

encode_imm8(param) ==
    IF param.t = "Imm8" THEN Encoded(<<param.imm % 256>>) ELSE EncodePanic

\* the opcode byte in front of an encoded operand
Prefixed(b, e) == IF e.panic THEN e ELSE Encoded(<<b>> \o e.out)

\* Encoder::encode
encode(op) ==
    CASE op.command = "Mov8" ->
            IF is_reg(op.dst) /\ is_imm(op.src)
            THEN Encoded((IF op.dst.t = "Reg8" THEN <<176 + op.dst.r>> ELSE <<>>)
                         \o (IF op.src.t = "Imm8" THEN <<op.src.imm % 256>> ELSE <<>>))
            ELSE IF is_ptr(op.src)
            THEN Prefixed(138, encode_r8_rm8(op.dst, op.src))
            ELSE Prefixed(136, encode_rm8_r8(op.dst, op.src))
      [] op.command = "Int" -> Prefixed(205, encode_imm8(op.dst))
      [] OTHER -> EncodePanic

---------------------------------------------------------------------------
(* The host *)

\* execute_frame: let cycles = self.clock_hz / fps
cycles == clock_hz \div fps

NoOp == Ins("None", NoParam, NoParam, "None", 0)

NoCall == [api |-> "none", fatal_at_entry |-> FALSE, cycles_at_entry |-> 0, executed |-> 0,
           returned |-> TRUE]

NoRep == [active |-> FALSE, op |-> NoOp, addr |-> 0, n |-> 0, iters |-> 0,
          start |-> CPU_new(<<>>), done |-> FALSE]

Event(api, op, pre, post, first) ==
    [api |-> api, op |-> op, pre |-> pre, post |-> post, first |-> first]

Record(e) == IF Len(hist) < 2 THEN Append(hist, e) ELSE <<hist[2], e>>

\* the run of a repeated instruction, after one more execute_instruction
RepAfter(op, pre, post) ==
    LET a == s_translate(get_sr(pre, "CS"), pre.ip)
        cont == rep.active /\ rep.op = op /\ rep.addr = a
        rewound == ~post.panicked /\ post.ip = pre.ip
    IN  IF op.repeat = "None" \/ op.command \in {"Unknown", "Invalid"}
        THEN NoRep
        ELSE [active |-> rewound, op |-> op, addr |-> a,
              n |-> IF cont THEN rep.n ELSE get_r16(pre, "CX"),
              iters |-> IF cont THEN rep.iters + 1 ELSE 1,
              start |-> IF cont THEN rep.start ELSE pre,
              done |-> ~rewound /\ ~post.panicked]

\* one call of execute_instruction by `api`, taking cpu to post
Executed(api, post, first) ==
    LET op == get_instruction(cpu)
    IN  /\ steps' = steps + 1
        /\ hist' = Record(Event(api, op, cpu, post, first))
        /\ rep' = RepAfter(op, cpu, post)

CanStep == ~cpu.panicked /\ steps < MaxSteps

\* the host calls CPU::execute_instruction once (as the debugger's step does)
CPU_execute_instruction ==
    /\ host = "CPU" /\ pc = "idle" /\ CanStep
    /\ cpu' = execute_instruction(cpu)
    /\ Executed("execute_instruction", cpu', FALSE)
    /\ UNCHANGED <<code, overflow_checks, host, pc, remaining, call>>

\* the host calls Machine::execute_instruction once
Machine_execute_instruction_call ==
    /\ host = "Machine" /\ pc = "idle" /\ CanStep
    /\ \E tick \in BOOLEAN : cpu' = Machine_execute_instruction(cpu, tick)
    /\ Executed("execute_instruction", cpu', FALSE)
    /\ UNCHANGED <<code, overflow_checks, host, pc, remaining, call>>

\* entry of CPU::execute_frame / Machine::execute_frame
execute_frame_call ==
    /\ pc = "idle" /\ ~cpu.panicked
    /\ pc' = "execute_frame"
    /\ call' = [api |-> "execute_frame", fatal_at_entry |-> cpu.fatal_error,
                cycles_at_entry |-> cpu.cycle_count,
                executed |-> 0, returned |-> FALSE]
    /\ UNCHANGED <<cpu, code, overflow_checks, host, remaining, steps, hist, rep>>

\* one iteration of the `loop` of execute_frame, with the two exit tests
FrameIteration(c1) ==
    LET exit_fatal == c1.fatal_error
        exit_budget == ~c1.fatal_error /\ c1.cycle_count > cycles
    IN  /\ cpu' = IF ~c1.panicked /\ exit_budget
                  THEN [c1 EXCEPT !.cycle_count = 0] ELSE c1
        /\ Executed("execute_frame", c1, call.executed = 0)
        /\ call' = [call EXCEPT !.executed = @ + 1,
                                !.returned = ~c1.panicked /\ (exit_fatal \/ exit_budget)]
        /\ pc' = IF ~c1.panicked /\ (exit_fatal \/ exit_budget)
                 THEN "idle" ELSE pc
        /\ UNCHANGED <<code, overflow_checks, host, remaining>>

CPU_execute_frame ==
    /\ host = "CPU" /\ pc = "execute_frame" /\ CanStep
    /\ FrameIteration(execute_instruction(cpu))

Machine_execute_frame ==
    /\ host = "Machine" /\ pc = "execute_frame" /\ CanStep
    /\ \E tick \in BOOLEAN : FrameIteration(Machine_execute_instruction(cpu, tick))

\* entry of Machine::execute_instructions(count); `for _ in 0..0` returns at once
Machine_execute_instructions_call ==
    /\ host = "Machine" /\ pc = "idle" /\ ~cpu.panicked
    /\ \E count \in 0 .. MaxCount :
          /\ remaining' = count
          /\ pc' = IF count = 0 THEN "idle" ELSE "execute_instructions"
          /\ call' = [api |-> "execute_instructions",
                      fatal_at_entry |-> cpu.fatal_error,
                      cycles_at_entry |-> cpu.cycle_count,
                      executed |-> 0, returned |-> (count = 0)]
    /\ UNCHANGED <<cpu, code, overflow_checks, host, steps, hist, rep>>

\* one iteration of the `for` of Machine::execute_instructions
Machine_execute_instructions ==
    /\ host = "Machine" /\ pc = "execute_instructions" /\ CanStep
    /\ \E tick \in BOOLEAN : \E c1 \in {Machine_execute_instruction(cpu, tick)} :
          LET exit == c1.fatal_error \/ remaining = 1
          IN  /\ cpu' = c1
              /\ Executed("execute_instructions", c1, call.executed = 0)
              /\ remaining' = remaining - 1
              /\ call' = [call EXCEPT !.executed = @ + 1,
                                      !.returned = ~c1.panicked /\ exit]
              /\ pc' = IF ~c1.panicked /\ exit THEN "idle" ELSE pc
    /\ UNCHANGED <<code, overflow_checks, host>>

\* CPU::soft_reset
SoftReset ==
    /\ host = "CPU" /\ pc = "idle" /\ ~cpu.panicked
    /\ cpu' = soft_reset(cpu)
    /\ hist' = Record(Event("soft_reset", NoOp, cpu, cpu', FALSE))
    /\ rep' = NoRep
    /\ UNCHANGED <<code, overflow_checks, host, pc, remaining, call, steps>>

\* CPU::hard_reset(mmu), with a zeroed memory
HardReset ==
    /\ host = "CPU" /\ pc = "idle" /\ ~cpu.panicked
    /\ cpu' = hard_reset(cpu, <<>>)
    /\ hist' = Record(Event("hard_reset", NoOp, cpu, cpu', FALSE))
    /\ rep' = NoRep
    /\ UNCHANGED <<code, overflow_checks, host, pc, remaining, call, steps>>

\* Machine::hard_reset
MachineHardReset ==
    /\ host = "Machine" /\ pc = "idle" /\ ~cpu.panicked
    /\ cpu' = Machine_hard_reset(cpu)
    /\ hist' = Record(Event("hard_reset", NoOp, cpu, cpu', FALSE))
    /\ rep' = NoRep
    /\ UNCHANGED <<code, overflow_checks, host, pc, remaining, call, steps>>

\* the host calls execute_instruction of the first generation once; the
\* programs stay within the opcodes g1_decode_instruction models
CPU1_execute_instruction ==
    /\ host = "CPU1" /\ pc = "idle" /\ CanStep
    /\ g1_peek_u8_at(cpu, seg_offs_as_flat(get_sr(cpu, "CS"), cpu.ip)) \in g1_Opcodes
    /\ cpu' = g1_execute_instruction(cpu)
    /\ steps' = steps + 1
    /\ hist' = Record(Event("g1_execute_instruction", g1_decode_instruction(cpu, "CS")[1],
                            cpu, cpu', FALSE))
    /\ UNCHANGED <<code, overflow_checks, host, pc, remaining, call, rep>>

\* the bytes at CS:off start with an instruction whose decoding this model
\* follows: segment prefixes, then a first byte with a modelled arm or none
RECURSIVE g1_Decodable(_, _)
g1_Decodable(c, off) ==
    LET b == g1_peek_u8_at(c, seg_offs_as_flat(get_sr(c, "CS"), off))
    IN  IF b \in g1_SegmentPrefixes THEN off < 65535 /\ g1_Decodable(c, off + 1)
        ELSE b \in g1_Opcodes \cup g1_NoArm \cup {205, 242}

\* the host disassembles the instruction at CS:IP
CPU1_disasm_instruction ==
    /\ host = "CPU1" /\ pc = "idle" /\ CanStep
    /\ g1_Decodable(cpu, cpu.ip)
    /\ \E d \in {g1_disasm_instruction(cpu)} :
          /\ cpu' = d[2]
          /\ hist' = Record(Event("g1_disasm_instruction", d[1], cpu, cpu', FALSE))
    /\ steps' = steps + 1
    /\ UNCHANGED <<code, overflow_checks, host, pc, remaining, call, rep>>

\* the host disassembles count instructions from CS:IP
CPU1_disassemble_block ==
    /\ host = "CPU1" /\ pc = "idle" /\ CanStep
    /\ g1_Decodable(cpu, cpu.ip)
    /\ \E count \in 1 .. MaxCount :
          /\ cpu' = g1_disassemble_block(cpu, cpu.ip, count)
          /\ hist' = Record(Event("g1_disassemble_block", NoOp, cpu, cpu', FALSE))
    /\ steps' = steps + 1
    /\ UNCHANGED <<code, overflow_checks, host, pc, remaining, call, rep>>


---------------------------------------------------------------------------
(* Programs: the decoded instructions a loaded image holds *)

RECURSIVE OffsetOf(_, _)
OffsetOf(ops, i) == IF i = 1 THEN 0 ELSE OffsetOf(ops, i - 1) + ops[i - 1].length

\* the decoder's view of `ops` laid out from seg:off
Assemble(ops, seg, off) ==
    LET at(i) == s_translate(seg, (off + OffsetOf(ops, i)) % U16)
    IN  [a \in {at(i) : i \in 1 .. Len(ops)} |->
            ops[CHOOSE i \in 1 .. Len(ops) : at(i) = a]]

Nop == Ins("Nop", NoParam, NoParam, "None", 1)

IntN(n) == Ins("Int", Imm8(n), NoParam, "None", 2)

\* a group opcode with a reserved reg field
InvalidOp == Ins("Invalid", NoParam, NoParam, "None", 2)

StringOp(command, mode) ==
    Ins(command, NoParam, NoParam, mode, IF mode = "None" THEN 1 ELSE 2)

RetnOp == Ins("Retn", NoParam, NoParam, "None", 1)

StringCommands == {"Stosb", "Stosw", "Movsb", "Movsw", "Lodsb", "Lodsw"}

\* a program and the CPU state the host starts it from
Setup(ops, c) == [ops |-> ops, cpu |-> c]

\* the CPU after load_com, with CX and AX set by the host
Loaded(cx, ax) ==
    [load_com(CPU_new(<<>>), <<>>) EXCEPT !.r16["CX"] = cx, !.r16["AX"] = ax]

\* the CPU the host has pointed at cs:ip (AX as given)
At(cs, ip, ax) ==
    [Loaded(255, ax) EXCEPT !.sreg16["CS"] = cs, !.ip = ip]

RunSetups ==
    {Setup(<<StringOp(k, "Rep"), Nop>>, Loaded(n, 4779)) :
        k \in StringCommands, n \in 0 .. MaxRep}
    \cup {Setup(<<IntN(n), Nop, Nop>>, Loaded(255, ah * 256)) :
            n \in {3, 8, 32, 33, 26}, ah \in {0, 76}}
    \cup {Setup(<<Nop, Nop, Nop, Nop, Nop>>, Loaded(255, 0)),
          Setup(<<InvalidOp, Nop>>, Loaded(255, 0)),
          Setup(<<Nop, InvalidOp, Nop>>, Loaded(255, 0)),
          Setup(<<Nop>>, Loaded(255, 0)),
          Setup(<<RetnOp, Nop>>, Loaded(255, 0))}
    \cup {Setup(<<op>>, At(61440, v, ah * 256)) :
            op \in {InvalidOp, UnknownOp}, v \in {26, 8}, ah \in {0, 1}}

InitHost ==
    /\ pc = "idle"
    /\ remaining = 0
    /\ call = NoCall
    /\ steps = 0
    /\ hist = <<>>
    /\ rep = NoRep

Init ==
    /\ overflow_checks \in BOOLEAN
    /\ host \in {"CPU", "Machine"}
    /\ \E setup \in RunSetups, cyc \in {0, cycles - 1} :
          /\ cpu = [setup.cpu EXCEPT !.cycle_count = cyc, !.instruction_count = cyc]
          /\ code = Assemble(setup.ops, setup.cpu.sreg16["CS"], setup.cpu.ip)
    /\ InitHost

Next ==
    \/ CPU_execute_instruction
    \/ Machine_execute_instruction_call
    \/ execute_frame_call
    \/ CPU_execute_frame
    \/ Machine_execute_frame
    \/ Machine_execute_instructions_call
    \/ Machine_execute_instructions
    \/ SoftReset
    \/ HardReset
    \/ MachineHardReset

Spec == Init /\ [][Next]_vars

---------------------------------------------------------------------------
(* Single instructions: the host steps CPU::execute_instruction through     *)
(* short programs from chosen register, stack and vector-table contents     *)

\* a CPU whose registers all hold different values, stack at ss:sp
ExecCpu(ss, sp) ==
    [load_com(CPU_new(<<>>), <<>>) EXCEPT
        !.r16 = [AX |-> 4369, CX |-> 8738, DX |-> 13107, BX |-> 17476,
                 SP |-> sp, BP |-> 21845, SI |-> 26214, DI |-> 30583],
        !.sreg16 = [ES |-> 12288, CS |-> psp_segment, SS |-> ss,
                    DS |-> 8192, FS |-> 16384, GS |-> 20480]]

\* c with the words ws stored from seg:off upwards
RECURSIVE WithWords(_, _, _, _)
WithWords(c, seg, off, ws) ==
    IF ws = <<>> THEN c
    ELSE WithWords(mmu_write_u16(c, seg, off, Head(ws)), seg,
                   (off + 2) % U16, Tail(ws))

PushSources ==
    {Reg16(r) : r \in R16} \cup {SReg16(sr) : sr \in SR}
    \cup {Imm16(i) : i \in {0, 4660, 65535}}
    \cup {ImmS8(i) : i \in {-128, -1, 127}}

PopTargets == {Reg16(r) : r \in R16} \cup {SReg16(sr) : sr \in SR}

PushOp(x) ==
    Ins("Push16", x, NoParam, "None",
        CASE x.t = "Imm16" -> 3 [] x.t = "ImmS8" -> 2 [] OTHER -> 1)

PopOp(y) == Ins("Pop16", y, NoParam, "None", 1)

PushPopSetups ==
    {Setup(<<PushOp(x), PopOp(y)>>, ExecCpu(ss, sp)) :
        x \in PushSources, y \in PopTargets,
        ss \in {0, psp_segment, 65535}, sp \in {0, 1, 256, 65534}}

\* the vector table entry of an untrapped vector n points at 5678:1234
IntSetups ==
    {Setup(<<IntN(n), Nop>>,
           [WithWords(ExecCpu(2304, sp), 0, n * 4, <<4660, 22136>>)
               EXCEPT !.flags.interrupt = fl, !.flags.trap = fl]) :
        n \in {0, 8, 28, 255}, sp \in {6, 256, 65534}, fl \in BOOLEAN}

DivOp(command) ==
    Ins(command, IF command \in {"Div8", "Idiv8"} THEN Reg8("BL") ELSE Reg16("BX"),
        NoParam, "None", 2)

\* DX:AX and BX for the divisions (DX:AX / BX, or AX / BL)
DivSetups ==
    {Setup(<<DivOp(k), Nop>>,
           [ExecCpu(2304, 256) EXCEPT !.r16["AX"] = ax, !.r16["DX"] = dx,
                                      !.r16["BX"] = bx]) :
        k \in {"Div8", "Div16", "Idiv8", "Idiv16"},
        ax \in {0, 100, 4096, 32768, 65535},
        dx \in {0, 1, 32767},
        bx \in {0, 1, 7, 255, 65535}}
    \cup {Setup(<<DivOp("Idiv16"), Nop>>,
                [ExecCpu(2304, 256) EXCEPT !.r16["AX"] = ax, !.r16["DX"] = 65535,
                                           !.r16["BX"] = bx]) :
            ax \in {0, 100, 65535}, bx \in {0, 7, 65535}}

\* CALL seg:off, opcode 9A.  The decoder of src/cpu.rs has no 9A arm and
\* reports it as unknown; as a decoded far call it has no arm in execute.
CallFarOp(seg, off) == Ins("CallFar", Ptr16Imm(seg, off), NoParam, "None", 5)

RetfOp == Ins("Retf", NoParam, NoParam, "None", 1)

\* the far call at CS:IP and a RETF at its target
FarCallSetups ==
    {[ops |-> <<far>>, target |-> <<RetfOp>>, cpu |-> ExecCpu(2304, sp)] :
        far \in {CallFarOp(4096, 512), UnknownOp}, sp \in {65534, 256, 2}}

RetImmOp(command, imm) == Ins(command, Imm16(imm), NoParam, "None", 3)

\* RET imm16 / RETF imm16 with four different words on the stack
RetImmSetups ==
    {Setup(<<RetImmOp(k, imm), Nop>>,
           WithWords(ExecCpu(2304, sp), 2304, sp, <<4369, 8738, 13107, 17476>>)) :
        k \in {"Retn", "Retf"}, imm \in {0, 2, 4, 65534}, sp \in {256, 65528}}

PushaOp == Ins("Pusha", NoParam, NoParam, "None", 1)

PopaOp == Ins("Popa", NoParam, NoParam, "None", 1)

PushaPopaSetups ==
    {Setup(<<PushaOp, PopaOp, Nop>>, ExecCpu(2304, sp)) : sp \in {16, 256, 65534, 0, 8}}

\* the string instructions of CPU::execute that address memory through SI or DI
PointerCommands ==
    {"Movsb", "Movsw", "Cmpsw", "Lodsb", "Lodsw", "Stosb", "Stosw", "Outsb", "Outsw"}

\* one unrepeated string instruction, both directions
StringStepSetups ==
    {Setup(<<StringOp(k, "None"), Nop>>,
           [ExecCpu(2304, 256) EXCEPT !.r16["SI"] = si, !.r16["DI"] = di,
                                      !.flags.direction = df]) :
        k \in PointerCommands, si \in {0, 1, 26214, 65535},
        di \in {0, 1, 30583, 65535}, df \in BOOLEAN}

\* a repeated string instruction under each prefix; CMPSW finds equal or
\* different words at DS:SI and ES:DI
RepeatSetups ==
    {Setup(<<StringOp(k, mode), Nop>>,
           mmu_write_u16([ExecCpu(2304, 256) EXCEPT !.r16["CX"] = cx,
                                                    !.flags.zero = zf],
                         8192, 26214, w)) :
        k \in {"Cmpsw", "Stosb", "Lodsw"}, mode \in {"Rep", "Repe", "Repne"},
        cx \in 0 .. MaxRep, zf \in BOOLEAN, w \in {0, 5}}

\* a conditional jump with its target as the decoder leaves it in dst
JccOp(k, target) == Ins(k, Imm16(target), NoParam, "None", 2)

\* every conditional jump under every value of the five condition flags
JccSetups ==
    {Setup(<<JccOp(k, 272), Nop>>,
           [ExecCpu(2304, 256) EXCEPT
               !.flags.carry = cf, !.flags.zero = zf, !.flags.sign = sf,
               !.flags.overflow = of, !.flags.parity = pf]) :
        k \in JccCommands, cf \in BOOLEAN, zf \in BOOLEAN, sf \in BOOLEAN,
        of \in BOOLEAN, pf \in BOOLEAN}

AModes == {"BXSI", "BXDI", "BPSI", "BPDI", "SI", "DI", "BP", "BX"}

\* the segment field of an operand: none, or the override prefix in front of it
Segments == {"Default", "CS", "ES", "SS", "DS"}

\* the byte operands [amode], [amode+disp8] and [amode+disp16]
MemOperands8(seg) ==
    {PtrAmode("Ptr8Amode", seg, m, 0) : m \in AModes}
    \cup {PtrAmode("Ptr8AmodeS8", seg, m, d) : m \in AModes, d \in {16, -1}}
    \cup {PtrAmode("Ptr8AmodeS16", seg, m, d) : m \in AModes, d \in {-2048, 30000}}

MemOperands16(seg) ==
    {PtrAmode("Ptr16Amode", seg, m, 0) : m \in AModes}
    \cup {PtrAmode("Ptr16AmodeS8", seg, m, d) : m \in AModes, d \in {16, -1}}
    \cup {PtrAmode("Ptr16AmodeS16", seg, m, d) : m \in AModes, d \in {-2048, 30000}}

MovOp(k, seg, dst, src) == [Ins(k, dst, src, "None", 2) EXCEPT !.segment_prefix = seg]

\* the cpu with a different value at the operand's offset in each segment
MarkedCpu(p) ==
    LET c == ExecCpu(2304, 256)
        off == AmodeOffset(c, p)
        c1 == mmu_write_u16(c, get_sr(c, "DS"), off, 56797)
        c2 == mmu_write_u16(c1, get_sr(c, "SS"), off, 21555)
        c3 == mmu_write_u16(c2, get_sr(c, "ES"), off, 60909)
    IN  mmu_write_u16(c3, get_sr(c, "CS"), off, 49357)

\* MOV between a register and each memory operand, in both directions
MovSetups ==
    UNION {
        {Setup(<<MovOp("Mov8", seg, p, Reg8("CH")), Nop>>, MarkedCpu(p)) :
            p \in MemOperands8(seg)}
        \cup {Setup(<<MovOp("Mov8", seg, Reg8("CH"), p), Nop>>, MarkedCpu(p)) :
            p \in MemOperands8(seg)}
        \cup {Setup(<<MovOp("Mov16", seg, p, Reg16("CX")), Nop>>, MarkedCpu(p)) :
            p \in MemOperands16(seg)}
        \cup {Setup(<<MovOp("Mov16", seg, Reg16("CX"), p), Nop>>, MarkedCpu(p)) :
            p \in MemOperands16(seg)} : seg \in Segments}

\* one unimplemented instruction of 2 to 4 bytes, also across the end of the
\* code segment
StubSetups ==
    {Setup(<<Ins(k, Reg16("AX"), Reg16("BX"), "None", len), Nop>>,
           [ExecCpu(2304, 256) EXCEPT !.ip = ip, !.flags.carry = f, !.flags.zero = f]) :
        k \in StubCommands, len \in 2 .. 4, ip \in {256, 65534}, f \in BOOLEAN}

\* mapped and unmapped ports, the low ones also as an immediate
Ports == {2, 16, 64, 96, 255, 964, 968, 969, 980, 986, 4660, 65535}

PortOps(port) ==
    {Ins("In8", Reg8("AL"), Reg16("DX"), "None", 1),
     Ins("Out8", Reg16("DX"), Reg8("AL"), "None", 1),
     Ins("Out16", Reg16("DX"), Reg16("AX"), "None", 1)}
    \cup (IF port < 256
          THEN {Ins("In8", Reg8("AL"), Imm8(port), "None", 2),
                Ins("Out8", Imm8(port), Reg8("AL"), "None", 2),
                Ins("Out16", Imm8(port), Reg16("AX"), "None", 2)}
          ELSE {})

\* one port instruction, also as the instruction that makes the timing tick
PortSetups ==
    UNION {{Setup(<<op, Nop>>,
                  [ExecCpu(2304, 256) EXCEPT !.r16["DX"] = port, !.cycle_count = cyc,
                                             !.pit_counter0 = 4660]) :
               op \in PortOps(port), cyc \in {0, 99}} : port \in Ports}

EnterOp(alloc_size, nesting_level) ==
    Ins("Enter", Imm16(alloc_size), Imm8(nesting_level), "None", 4)

LeaveOp == Ins("Leave", NoParam, NoParam, "None", 1)

\* ENTER then LEAVE, from stacks and frames near both ends of the segment
EnterSetups ==
    {Setup(<<EnterOp(alloc_size, nesting_level), LeaveOp, Nop>>,
           [ExecCpu(2304, sp) EXCEPT !.r16["BP"] = bp]) :
        alloc_size \in {0, 8, 512, 65535}, nesting_level \in {0, 1, 2, 31},
        sp \in {0, 2, 256, 65534}, bp \in {0, 2, 256, 21845}}

\* operand values at the nibble, sign and width boundaries
AdcBytes == {0, 1, 15, 16, 127, 128, 255}

AdcWords == {0, 1, 15, 16, 32767, 32768, 65535}

\* ADC AL,imm8 / ADC AL,BL and ADC AX,imm16 / ADC AX,BX with either carry
AdcSetups ==
    {Setup(<<Ins("Adc8", Reg8("AL"), IF imm THEN Imm8(b) ELSE Reg8("BL"), "None", 2), Nop>>,
           [ExecCpu(2304, 256) EXCEPT !.r16["AX"] = 4352 + a, !.r16["BX"] = b,
                                      !.flags.carry = cf]) :
        a \in AdcBytes, b \in AdcBytes, cf \in BOOLEAN, imm \in BOOLEAN}
    \cup
    {Setup(<<Ins("Adc16", Reg16("AX"), IF imm THEN Imm16(b) ELSE Reg16("BX"), "None", 3), Nop>>,
           [ExecCpu(2304, 256) EXCEPT !.r16["AX"] = a, !.r16["BX"] = b,
                                      !.flags.carry = cf]) :
        a \in AdcWords, b \in AdcWords, cf \in BOOLEAN, imm \in BOOLEAN}

\* operand values of the one- and two-operand arithmetic instructions
ArithBytes == {0, 1, 127, 128, 255}

ArithWords == {0, 1, 32767, 32768, 65535}

\* NEG AL and NEG AX with either incoming carry
NegSetups ==
    {Setup(<<Ins("Neg8", Reg8("AL"), NoParam, "None", 2), Nop>>,
           [ExecCpu(2304, 256) EXCEPT !.r16["AX"] = 4352 + a, !.flags.carry = cf]) :
        a \in ArithBytes, cf \in BOOLEAN}
    \cup
    {Setup(<<Ins("Neg16", Reg16("AX"), NoParam, "None", 2), Nop>>,
           [ExecCpu(2304, 256) EXCEPT !.r16["AX"] = a, !.flags.carry = cf]) :
        a \in ArithWords, cf \in BOOLEAN}

LogicBytes == {0, 15, 128, 255}

LogicWords == {0, 255, 32768, 65535}

\* AND / OR / XOR / TEST of AL,BL and of AX,BX from every state of CF and OF
LogicSetups ==
    {Setup(<<Ins(cmd \o "8", Reg8("AL"), Reg8("BL"), "None", 2), Nop>>,
           [ExecCpu(2304, 256) EXCEPT !.r16["AX"] = 4352 + a, !.r16["BX"] = b,
                                      !.flags.carry = cf, !.flags.overflow = of]) :
        cmd \in {"And", "Or", "Xor", "Test"}, a \in LogicBytes, b \in LogicBytes,
        cf \in BOOLEAN, of \in BOOLEAN}
    \cup
    {Setup(<<Ins(cmd \o "16", Reg16("AX"), Reg16("BX"), "None", 2), Nop>>,
           [ExecCpu(2304, 256) EXCEPT !.r16["AX"] = a, !.r16["BX"] = b,
                                      !.flags.carry = cf, !.flags.overflow = of]) :
        cmd \in {"And", "Or", "Xor", "Test"}, a \in LogicWords, b \in LogicWords,
        cf \in BOOLEAN, of \in BOOLEAN}

\* the six status flags all clear or all set
WithStatus(c, v) ==
    [c EXCEPT !.flags.carry = v, !.flags.overflow = v, !.flags.sign = v,
              !.flags.zero = v, !.flags.auxiliary_carry = v, !.flags.parity = v]

\* CMP and SUB of the same operands: register, immediate, sign-extended
\* immediate and memory forms; CMPSW over the same pairs of words
CmpSetups ==
    {Setup(<<Ins(cmd \o "8", Reg8("AL"), IF imm THEN Imm8(b) ELSE Reg8("BL"), "None", 2), Nop>>,
           WithStatus([ExecCpu(2304, 256) EXCEPT !.r16["AX"] = 4352 + a, !.r16["BX"] = b], v)) :
        cmd \in {"Cmp", "Sub"}, a \in ArithBytes, b \in ArithBytes,
        imm \in BOOLEAN, v \in BOOLEAN}
    \cup
    {Setup(<<Ins(cmd \o "8", Ptr8("DS", 512), Reg8("BL"), "None", 4), Nop>>,
           WithStatus(mmu_write_u8([ExecCpu(2304, 256) EXCEPT !.r16["BX"] = b],
                                   8192, 512, a), v)) :
        cmd \in {"Cmp", "Sub"}, a \in ArithBytes, b \in ArithBytes, v \in BOOLEAN}
    \cup
    {Setup(<<Ins(cmd \o "16", Reg16("AX"), IF imm THEN Imm16(b) ELSE Reg16("BX"), "None", 3), Nop>>,
           WithStatus([ExecCpu(2304, 256) EXCEPT !.r16["AX"] = a, !.r16["BX"] = b], v)) :
        cmd \in {"Cmp", "Sub"}, a \in ArithWords, b \in ArithWords,
        imm \in BOOLEAN, v \in BOOLEAN}
    \cup
    {Setup(<<Ins(cmd \o "16", Reg16("AX"), ImmS8(b), "None", 3), Nop>>,
           WithStatus([ExecCpu(2304, 256) EXCEPT !.r16["AX"] = a], v)) :
        cmd \in {"Cmp", "Sub"}, a \in ArithWords, b \in {-128, -1, 1, 127},
        v \in BOOLEAN}
    \cup
    {Setup(<<Ins(cmd \o "16", Ptr16("DS", 512), Reg16("BX"), "None", 4), Nop>>,
           WithStatus(mmu_write_u16([ExecCpu(2304, 256) EXCEPT !.r16["BX"] = b],
                                    8192, 512, a), v)) :
        cmd \in {"Cmp", "Sub"}, a \in ArithWords, b \in ArithWords, v \in BOOLEAN}
    \cup
    {Setup(<<StringOp("Cmpsw", "None"), Nop>>,
           WithStatus(mmu_write_u16(mmu_write_u16(ExecCpu(2304, 256), 8192, 26214, a),
                                    12288, 30583, b), v)) :
        a \in ArithWords, b \in ArithWords, v \in BOOLEAN}

\* INC and DEC of a register and of a memory operand, with either carry
IncDecSetups ==
    {Setup(<<Ins(cmd \o "8", IF m THEN Ptr8("DS", 512) ELSE Reg8("AL"), NoParam, "None", 2), Nop>>,
           mmu_write_u8([ExecCpu(2304, 256) EXCEPT !.r16["AX"] = 4352 + a,
                                                   !.flags.carry = cf],
                        8192, 512, a)) :
        cmd \in {"Inc", "Dec"}, a \in ArithBytes, m \in BOOLEAN, cf \in BOOLEAN}
    \cup
    {Setup(<<Ins(cmd \o "16", IF m THEN Ptr16("DS", 512) ELSE Reg16("AX"), NoParam, "None", 2), Nop>>,
           mmu_write_u16([ExecCpu(2304, 256) EXCEPT !.r16["AX"] = a, !.flags.carry = cf],
                         8192, 512, a)) :
        cmd \in {"Inc", "Dec"}, a \in ArithWords, m \in BOOLEAN, cf \in BOOLEAN}

\* MOVZX / MOVSX CX, BL for every byte, and CX, byte [DS:0200h]
ExtendSetups ==
    {Setup(<<Ins(cmd, Reg16("CX"), Reg8("BL"), "None", 3), Nop>>,
           WithStatus([ExecCpu(2304, 256) EXCEPT !.r16["BX"] = 17408 + b], v)) :
        cmd \in {"Movzx16", "Movsx16"}, b \in 0 .. 255, v \in BOOLEAN}
    \cup
    {Setup(<<Ins(cmd, Reg16("CX"), Ptr8("DS", 512), "None", 5), Nop>>,
           WithStatus(mmu_write_u8(ExecCpu(2304, 256), 8192, 512, b), v)) :
        cmd \in {"Movzx16", "Movsx16"}, b \in ArithBytes, v \in BOOLEAN}

\* LDS / LES BX, [m] with a far pointer off:seg stored at DS:m
FarOperands ==
    {Ptr16("DS", 260), Ptr16("DS", 65534), PtrAmode("Ptr16Amode", "DS", "SI", 0),
     PtrAmode("Ptr16AmodeS8", "DS", "SI", -2), PtrAmode("Ptr16AmodeS16", "DS", "BPDI", 256)}

FarSetups ==
    {Setup(<<Ins(cmd, Reg16("BX"), p, "None", 4), Nop>>,
           Bind([ExecCpu(2304, 256) EXCEPT !.r16["SI"] = 768, !.r16["DI"] = 1024,
                                           !.r16["BP"] = 64],
                LAMBDA c0 : Bind(read_parameter_address(c0, p) % U16, LAMBDA m :
                    mmu_write_u16(mmu_write_u16(c0, 8192, m, off),
                                  8192, (m + 2) % U16, seg)))) :
        cmd \in {"Lds", "Les"}, p \in FarOperands,
        off \in {0, 4660, 65535}, seg \in {0, 8192, 43981}}

ShiftCommands == {"Shl", "Shr", "Sar", "Rol", "Ror", "Rcl", "Rcr"}

ShiftCounts == {0, 1, 2, 3, 4, 7, 8, 9, 15, 16, 17, 31, 32, 33}

ShiftBytes == {0, 1, 64, 128, 129, 192, 255}

ShiftWords == {0, 1, 16384, 32768, 32769, 49152, 65535}

\* shifts and rotates of AL / AX by an immediate, of BL / BX by CL, and of
\* a byte / word in memory by 1
ShiftSetups ==
    {Setup(<<Ins(cmd \o "8", Reg8("AL"), Imm8(n), "None", 3), Nop>>,
           WithStatus([ExecCpu(2304, 256) EXCEPT !.r16["AX"] = 4352 + a], v)) :
        cmd \in ShiftCommands, a \in ShiftBytes, n \in ShiftCounts, v \in BOOLEAN}
    \cup
    {Setup(<<Ins(cmd \o "16", Reg16("AX"), Imm8(n), "None", 3), Nop>>,
           WithStatus([ExecCpu(2304, 256) EXCEPT !.r16["AX"] = a], v)) :
        cmd \in ShiftCommands, a \in ShiftWords, n \in ShiftCounts, v \in BOOLEAN}
    \cup
    {Setup(<<Ins(cmd \o w, IF w = "8" THEN Reg8("BL") ELSE Reg16("BX"), Reg8("CL"),
                 "None", 2), Nop>>,
           WithStatus([ExecCpu(2304, 256) EXCEPT !.r16["BX"] = 33025, !.r16["CX"] = 512 + n],
                      v)) :
        cmd \in ShiftCommands, w \in {"8", "16"}, n \in {0, 1, 5, 32}, v \in BOOLEAN}
    \cup
    {Setup(<<Ins(cmd \o "8", Ptr8("DS", 512), Imm8(1), "None", 2), Nop>>,
           WithStatus(mmu_write_u8(ExecCpu(2304, 256), 8192, 512, a), v)) :
        cmd \in ShiftCommands, a \in ShiftBytes, v \in BOOLEAN}

\* packed-BCD bytes with digits 0, 1, 4, 5, 8, 9
BcdDigits == {0, 1, 4, 5, 8, 9}

BcdBytes == {16 * hi + lo : hi \in BcdDigits, lo \in BcdDigits}

\* DAA / DAS alone for every AL, CF and AF; ADD AL, BL then DAA over packed
\* BCD operands; ADD AX, BX
AdjustSetups ==
    {Setup(<<Ins(cmd, NoParam, NoParam, "None", 1), Nop>>,
           [ExecCpu(2304, 256) EXCEPT !.r16["AX"] = 4352 + a, !.flags.carry = cf,
                                      !.flags.auxiliary_carry = af]) :
        cmd \in {"Daa", "Das"}, a \in 0 .. 255, cf \in BOOLEAN, af \in BOOLEAN}
    \cup
    {Setup(<<Ins("Add8", Reg8("AL"), Reg8("BL"), "None", 2),
             Ins("Daa", NoParam, NoParam, "None", 1)>>,
           [ExecCpu(2304, 256) EXCEPT !.r16["AX"] = 4352 + a, !.r16["BX"] = b]) :
        a \in BcdBytes, b \in BcdBytes}
    \cup
    {Setup(<<Ins("Add16", Reg16("AX"), Reg16("BX"), "None", 2), Nop>>,
           [ExecCpu(2304, 256) EXCEPT !.r16["AX"] = a, !.r16["BX"] = b]) :
        a \in ArithWords, b \in ArithWords}

\* RET with SP at, below and beyond 0xFFFE; RET imm16 whose adjustment
\* reaches, misses or wraps to 0xFFFE
RetnSetups ==
    {Setup(<<RetnOp, Nop>>,
           WithWords(ExecCpu(2304, sp), 2304, sp, <<4369, 8738>>)) :
        sp \in {65534, 65532, 65535, 0, 256}}
    \cup
    {Setup(<<RetImmOp("Retn", a[2]), Nop>>,
           WithWords(ExecCpu(2304, a[1]), 2304, (a[1] + a[2]) % U16, <<4369, 8738>>)) :
        a \in {<<65528, 6>>, <<65530, 4>>, <<65534, 0>>, <<65534, 2>>, <<2, 65532>>,
                <<65535, 65535>>, <<65526, 6>>}}

\* CALL 0104h at 0100h, NOP at 0103h, RET at 0104h
CallRetSetups ==
    {Setup(<<Ins("CallNear", Imm16(260), NoParam, "None", 3), Nop, RetnOp>>,
           ExecCpu(2304, sp)) :
        sp \in {0, 1, 2, 4, 256, 65534}}

ExecSetups ==
    PushPopSetups \cup IntSetups \cup DivSetups \cup RetImmSetups \cup PushaPopaSetups
    \cup StringStepSetups \cup RepeatSetups \cup JccSetups \cup MovSetups
    \cup StubSetups \cup PortSetups \cup EnterSetups \cup AdcSetups \cup NegSetups \cup LogicSetups \cup CmpSetups \cup IncDecSetups \cup ExtendSetups \cup FarSetups \cup ShiftSetups \cup AdjustSetups \cup RetnSetups \cup CallRetSetups

InitExec ==
    /\ overflow_checks \in BOOLEAN
    /\ host = "CPU"
    /\ \/ \E setup \in ExecSetups :
             /\ cpu = setup.cpu
             /\ code = Assemble(setup.ops, setup.cpu.sreg16["CS"], setup.cpu.ip)
       \/ \E setup \in FarCallSetups :
             /\ cpu = setup.cpu
             /\ code = Assemble(setup.ops, setup.cpu.sreg16["CS"], setup.cpu.ip)
                        @@ Assemble(setup.target, 4096, 512)
    /\ InitHost

\* the .COM images the host loads: NOP (90) and HLT (F4) bytes
LoadImages == {<<>>, <<144>>, <<244, 144>>, <<144, 144, 244>>}

\* what the decoder returns for a loaded image, byte by byte
ImageCode(data) ==
    [a \in {s_translate(psp_segment, 256 + (i - 1)) : i \in 1 .. Len(data)} |->
        LET i == CHOOSE j \in 1 .. Len(data) : s_translate(psp_segment, 256 + (j - 1)) = a
        IN  Ins(IF data[i] = 144 THEN "Nop" ELSE "Hlt", NoParam, NoParam, "None", 1)]

\* the host loads a .COM image into the CPU in whatever state it is
CPU_load_com ==
    /\ host = "CPU" /\ pc = "idle" /\ ~cpu.panicked
    /\ \E data \in LoadImages :
          /\ cpu' = load_com(cpu, data)
          /\ code' = ImageCode(data)
          /\ hist' = Record([data |-> data] @@ Event("load_com", NoOp, cpu, cpu', FALSE))
    /\ rep' = NoRep
    /\ UNCHANGED <<overflow_checks, host, pc, remaining, call, steps>>

NextExec == CPU_execute_instruction

SpecExec == InitExec /\ [][NextExec]_vars

\* the host loads .COM images into a CPU that has run other programs
InitLoad ==
    /\ overflow_checks \in BOOLEAN
    /\ host = "CPU"
    /\ \E setup \in PushaPopaSetups \cup RetImmSetups :
          /\ cpu = setup.cpu
          /\ code = Assemble(setup.ops, setup.cpu.sreg16["CS"], setup.cpu.ip)
    /\ InitHost

NextLoad == CPU_execute_instruction \/ CPU_load_com

SpecLoad == InitLoad /\ [][NextLoad]_vars


---------------------------------------------------------------------------
(* The first generation stepped through programs stored in memory *)

\* c with the bytes bs stored from flat offset pos upwards
RECURSIVE g1_WithBytes(_, _, _)
g1_WithBytes(c, pos, bs) ==
    IF bs = <<>> THEN c
    ELSE g1_WithBytes(g1_write_u8(c, pos, Head(bs)), pos + 1, Tail(bs))

\* CPU::new of src/cpu.rs (SP = 0xFFFE) and its load_com of the bytes prog
g1_Loaded(prog) ==
    LET c == [CPU_new(<<>>) EXCEPT
                 !.r16["SP"] = 65534, !.r16["BP"] = 2332,
                 !.sreg16["CS"] = psp_segment, !.sreg16["DS"] = psp_segment,
                 !.sreg16["ES"] = psp_segment, !.sreg16["SS"] = psp_segment,
                 !.ip = 256]
    IN  g1_WithBytes(c, seg_offs_as_flat(psp_segment, 256), prog)

\* the loaded program with the registers the host has set
g1_Regs(prog, regs) == [g1_Loaded(prog) EXCEPT !.r16 = regs]

DistinctRegs(sp) ==
    [AX |-> 4369, CX |-> 8738, DX |-> 13107, BX |-> 17476,
     SP |-> sp, BP |-> 21845, SI |-> 26214, DI |-> 30583]

\* PUSHA; POPA; NOP
g1_PushaPopaSetups ==
    {g1_Regs(<<96, 97, 144>>, DistinctRegs(sp)) : sp \in {16, 256, 65534, 0, 8}}

\* REP MOVSB; NOP with DS = ES = 1000, SI = 0, DI = 0010, CX = n and the
\* bytes AA BB CC DD at 1000:0000
g1_RepMovsbSetups ==
    {[g1_WithBytes(g1_Loaded(<<243, 164, 144>>), seg_offs_as_flat(4096, 0),
                   <<170, 187, 204, 221>>)
         EXCEPT !.sreg16["DS"] = 4096, !.sreg16["ES"] = 4096,
                !.r16["SI"] = 0, !.r16["DI"] = 16, !.r16["CX"] = n] :
        n \in 1 .. MaxRep + 1}

\* the start addresses and displacement bytes of the short jumps
JccStarts == {0, 256, 32751, 32766, 65533, 65534}

JccDisplacements == {0, 5, 127, 128, 254, 255}

g1_JccOpcodes == (112 .. 121) \cup (124 .. 127)

\* Jcc rel8; NOP at CS:A
g1_JccSetups ==
    {[g1_WithBytes(g1_Loaded(<<>>), seg_offs_as_flat(psp_segment, a), <<b, d, 144>>)
         EXCEPT !.ip = a, !.flags.zero = zf, !.flags.sign = sf, !.flags.carry = cf] :
        b \in g1_JccOpcodes, a \in JccStarts, d \in JccDisplacements,
        zf \in BOOLEAN, sf \in BOOLEAN, cf \in BOOLEAN}

\* the offset of a byte operand inside its segment: the register sum plus
\* the sign-extended displacement, modulo 2^16
g1_EffectiveOffset(c, p) ==
    IF p.t = "Ptr8" THEN p.imm ELSE (g1_amode16(c, p.amode) + p.imm) % U16

g1_Linear(c, p) == seg_offs_as_flat(g1_segment(c, p.seg), g1_EffectiveOffset(c, p))

\* the bytes after the opcode for the operand p with register field reg
g1_ModRmBytes(reg, p) ==
    CASE p.t = "Ptr8" -> <<(reg * 8) + 6, p.imm % 256, p.imm \div 256>>
      [] p.t = "Ptr8Amode" -> <<(reg * 8) + p.amode>>
      [] p.t = "Ptr8AmodeS8" -> <<64 + (reg * 8) + p.amode, p.imm % 256>>
      [] p.t = "Ptr8AmodeS16" ->
            <<128 + (reg * 8) + p.amode, (p.imm % U16) % 256, (p.imm % U16) \div 256>>

g1_MemOperands ==
    {Ptr8("CS", 4660)}
    \cup {PtrAmode("Ptr8Amode", "CS", m, 0) : m \in {0, 7}}
    \cup {PtrAmode("Ptr8AmodeS8", "CS", m, d) : m \in {0, 6, 7}, d \in {1, 16, -1}}
    \cup {PtrAmode("Ptr8AmodeS16", "CS", m, d) : m \in {0, 6, 7}, d \in {1, -1, -32768}}

\* ADD [m],AL / MOV [m],AL / MOV AL,[m]; NOP, with 11 at the operand's address
g1_OperandSetups ==
    {LET c == [g1_Loaded(<<b>> \o g1_ModRmBytes(0, p) \o <<144>>) EXCEPT
                  !.r16["AX"] = 4698, !.r16["BX"] = bx, !.r16["SI"] = si]
     IN  [c EXCEPT !.mem = MemWrite(@, g1_Linear(c, p), 17)] :
        b \in {0, 136, 138}, p \in g1_MemOperands,
        bx \in {256, 65520}, si \in {16, 15}}

\* PUSH AX; POP BX; NOP with the stack pointer at and away from the ends of
\* the stack segment, and the stack segment at and away from the end of memory
g1_StackSetups ==
    {[g1_Loaded(<<80, 91, 144>>) EXCEPT
         !.r16["AX"] = 4660, !.r16["SP"] = sp, !.sreg16["SS"] = ss] :
        sp \in {1, 2, 256, 0}, ss \in {psp_segment, 4096, 61440}}

\* the prefix bytes: segment overrides, LOCK, REPNE, REP, operand and
\* address size
PrefixBytes == {38, 46, 54, 62, 100, 101, 240, 242, 243, 102, 103}

\* one or two prefix bytes in front of NOP or MOV [BX],AL
PrefixSeqs == {<<a>> : a \in PrefixBytes} \cup {<<a, b>> : a, b \in PrefixBytes}

g1_PrefixSetups ==
    {g1_Loaded(ps \o body) : ps \in PrefixSeqs, body \in {<<144>>, <<136, 7>>}}

g1_Setups ==
    g1_PushaPopaSetups \cup g1_RepMovsbSetups \cup g1_JccSetups \cup g1_OperandSetups
    \cup g1_StackSetups \cup g1_PrefixSetups

InitGen1 ==
    /\ overflow_checks \in BOOLEAN
    /\ host = "CPU1"
    /\ cpu \in g1_Setups
    /\ code = <<>>
    /\ InitHost

NextGen1 ==
    \/ CPU1_execute_instruction
    \/ CPU1_disasm_instruction
    \/ CPU1_disassemble_block

SpecGen1 == InitGen1 /\ [][NextGen1]_vars

---------------------------------------------------------------------------
(* The first generation programming the VGA DAC: a run of OUT DX,AL with DX  *)
(* and AL set before each one                                                *)

\* the bytes written: 6-bit colours and an index that wraps
DacData == {5, 255}

\* the PEL address and PEL data ports
DacPorts == {968, 969}

\* OUT DX,AL with DX = port and AL = data
CPU1_out_dx_al ==
    /\ host = "DAC" /\ pc = "idle" /\ ~cpu.panicked /\ steps < MaxWrites
    /\ \E port \in DacPorts, data \in DacData :
          LET c0 == [cpu EXCEPT !.r16["DX"] = port, !.r16["AX"] = data]
          IN  /\ cpu' = g1_execute_instruction(c0)
              /\ hist' = Append(hist, Event("g1_out_u8", g1_decode_instruction(c0, "CS")[1],
                                             c0, cpu', FALSE))
    /\ steps' = steps + 1
    /\ UNCHANGED <<code, overflow_checks, host, pc, remaining, call, rep>>

InitDac ==
    /\ overflow_checks \in BOOLEAN
    /\ host = "DAC"
    /\ cpu = g1_Loaded([i \in 1 .. (MaxWrites + 1) |-> 238])
    /\ code = <<>>
    /\ InitHost

NextDac == CPU1_out_dx_al

SpecDac == InitDac /\ [][NextDac]_vars

---------------------------------------------------------------------------
(* The first generation spinning on the input status register:               *)
(*     0100: EC      in al, dx      (DX = 3DA)                               *)
(*     0101: 71 FD   jno 0100                                                *)

PollProgram == <<236, 113, 253>>

\* one more instruction of the polling loop
CPU1_poll ==
    /\ host = "Poll" /\ pc = "idle" /\ ~cpu.panicked /\ steps < MaxPolls
    /\ cpu' = g1_execute_instruction(cpu)
    /\ steps' = steps + 1
    /\ LET op == g1_decode_instruction(cpu, "CS")[1]
       IN  hist' = Record(Event(IF op.command = "In8" THEN "g1_in_port"
                                ELSE "g1_execute_instruction",
                                op, cpu, cpu', FALSE))
    /\ UNCHANGED <<code, overflow_checks, host, pc, remaining, call, rep>>

\* where the loop is picked up: two instructions before the scanline counter
\* leaves 0 (after 98 instructions) and two before it returns to 0 (after
\* 100 * 321 - 2 instructions, at scanline 320)
PollStarts ==
    {[instruction_count |-> 98, scanline |-> 0],
     [instruction_count |-> 32098, scanline |-> 320]}

InitPoll ==
    /\ overflow_checks \in BOOLEAN
    /\ host = "Poll"
    /\ \E start \in PollStarts, ah \in 0 .. 7 :
          cpu = [g1_Loaded(PollProgram) EXCEPT
                    !.r16["DX"] = 986, !.r16["AX"] = ah * 256,
                    !.instruction_count = start.instruction_count,
                    !.scanline = start.scanline]
    /\ code = <<>>
    /\ InitHost

NextPoll == CPU1_poll

\* the CPU keeps executing instructions
SpecPoll == InitPoll /\ [][NextPoll]_vars /\ WF_vars(NextPoll)

---------------------------------------------------------------------------
(* Instructions handed to the encoder *)

EncSegments == {"Default", "ES"}

\* a direct [disp16] and the eight addressing modes with no, an 8-bit and a
\* 16-bit displacement
EncMemOperands ==
    UNION {
        {Ptr8(seg, a) : a \in {32768, 50021}}
        \cup {PtrAmode("Ptr8Amode", seg, m, 0) : m \in 0 .. 7}
        \cup {PtrAmode("Ptr8AmodeS8", seg, m, d) : m \in 0 .. 7, d \in {16, -1}}
        \cup {PtrAmode("Ptr8AmodeS16", seg, m, d) : m \in 0 .. 7, d \in {-2048, 5}} :
        seg \in EncSegments}

EncodableOps ==
    {g1_Ins("Mov8", Reg8(r), Imm8(i)) : r \in {0, 7}, i \in {0, 255}}
    \cup {g1_Ins("Mov8", Reg8(7), m) : m \in EncMemOperands}
    \cup {g1_Ins("Mov8", m, Reg8(7)) : m \in EncMemOperands}
    \cup {g1_Ins("Mov8", Reg8(r), Reg8(q)) : r \in {0, 7}, q \in {2, 7}}
    \cup {g1_Ins("Int", Imm8(i), NoParam) : i \in {0, 33, 255}}

\* assert_encdec: encode the instruction, load the bytes as a .com program
\* and decode one instruction from CS:0100
assert_encdec ==
    /\ host = "Encoder" /\ pc = "idle" /\ steps = 0
    /\ LET e == encode(code[0])
           c0 == g1_Loaded(e.out)
           d == g1_disasm_instruction(c0)
       IN  IF e.panic
           THEN /\ cpu' = Panic(cpu)
                /\ hist' = Record(Event("assert_encdec", NoOp, cpu, cpu', FALSE))
           ELSE /\ cpu' = d[2]
                /\ hist' = Record(Event("assert_encdec", d[1], c0, d[2], FALSE))
    /\ steps' = steps + 1
    /\ UNCHANGED <<code, overflow_checks, host, pc, remaining, call, rep>>

InitEnc ==
    /\ overflow_checks \in BOOLEAN
    /\ host = "Encoder"
    /\ cpu = g1_Loaded(<<>>)
    /\ \E op \in EncodableOps : code = (0 :> op)
    /\ InitHost

NextEnc == assert_encdec

SpecEnc == InitEnc /\ [][NextEnc]_vars

---------------------------------------------------------------------------
(* Reading the history *)

Events == {hist[i] : i \in 1 .. Len(hist)}

Last == hist[Len(hist)]

LoopApis == {"execute_frame", "execute_instructions"}

ExecApis == LoopApis \cup {"execute_instruction"}

ResetApis == {"soft_reset", "hard_reset"}

\* an execution loop has just returned to the host
JustReturned ==
    /\ pc = "idle" /\ call.api \in LoopApis /\ call.returned
    /\ call.executed > 0 => (hist # <<>> /\ Last.api = call.api)

\* the event left everything but IP and the counters as it was
SameButIp(e) ==
    /\ e.post.r16 = e.pre.r16
    /\ e.post.sreg16 = e.pre.sreg16
    /\ e.post.flags = e.pre.flags
    /\ e.post.mem = e.pre.mem

IsRepString(op) == op.repeat = "Rep" /\ op.command \in StringCommands

---------------------------------------------------------------------------
(* C1 *)

\* C1: a REP MOVS/STOS/LODS started with CX = n performs exactly n
\* iterations and ends with CX = 0; with n = 0 it performs no iteration and
\* changes no memory and no register other than IP.
C1_RepRunsCxIterations ==
    /\ IsRepString(rep.op) =>
          /\ rep.iters <= rep.n
          /\ rep.done => (rep.iters = rep.n /\ get_r16(cpu, "CX") = 0)
    /\ \A e \in Events :
          (e.api \in ExecApis /\ IsRepString(e.op) /\ get_r16(e.pre, "CX") = 0
             /\ ~e.post.panicked)
          => SameButIp(e)

---------------------------------------------------------------------------
(* C2 *)

\* a PUSH x immediately followed by a POP y
IsPushPop ==
    /\ Len(hist) = 2
    /\ hist[1].api = "execute_instruction" /\ hist[2].api = "execute_instruction"
    /\ hist[1].op.command = "Push16" /\ hist[2].op.command = "Pop16"
    /\ hist[2].pre = hist[1].post
    /\ ~hist[2].post.panicked

\* the 16-bit value of x when it was pushed, and of y after the pop
Pushed == read_parameter_value(hist[1].pre, hist[1].op.dst) % U16

Popped == read_parameter_value(hist[2].post, hist[2].op.dst)

SpRestored == get_r16(hist[2].post, "SP") = get_r16(hist[1].pre, "SP")

\* C2 as stated: PUSH x (register, segment register or immediate) followed
\* by POP y (any 16-bit register or segment register) leaves y equal to x
\* and SP at its value before the PUSH.
C2_PushPopRoundTripAsStated ==
    IsPushPop => (Popped = Pushed /\ SpRestored)

\* C2 (amended): PUSH x followed by POP y leaves y equal to x; SP is back at
\* its value before the PUSH whenever y is not SP (POP SP leaves SP = x).
C2_PushPopRoundTrip ==
    IsPushPop => /\ Popped = Pushed
                 /\ hist[2].op.dst # Reg16("SP") => SpRestored

\* a POP SP of a pushed value other than the old SP
C2_Witness ==
    /\ IsPushPop
    /\ hist[2].op.dst = Reg16("SP")
    /\ Pushed # get_r16(hist[1].pre, "SP")
    /\ get_r16(cpu, "SP") = Pushed

---------------------------------------------------------------------------
(* C3 *)

\* C3: fatal_error is sticky: a step that takes it from true to false is a
\* reset (soft_reset / hard_reset), never an execute_instruction or a loop.
C3_FatalErrorSticky ==
    [][(cpu.fatal_error /\ ~cpu'.fatal_error)
        => (steps' = steps /\ hist' # <<>> /\ hist'[Len(hist')].api \in ResetApis)]_vars

\* a decodable instruction was executed with fatal_error already set, and
\* fatal_error is still set
C3_Witness ==
    /\ hist # <<>>
    /\ Last.api \in ExecApis
    /\ Last.pre.fatal_error
    /\ Last.op.command \notin {"Unknown", "Invalid"}
    /\ Last.post.instruction_count = Last.pre.instruction_count + 1
    /\ cpu.fatal_error

---------------------------------------------------------------------------
(* C4 *)

\* C4: the execution loops execute no instruction while fatal_error is
\* true: neither the instruction that follows the one that set it, nor, when
\* called with fatal_error already set, the instruction at CS:IP.
C4_LoopsExecuteNothingWhileFatal ==
    \A e \in Events :
        (e.api \in LoopApis /\ e.op.command \notin {"Unknown", "Invalid"})
        => ~e.pre.fatal_error

---------------------------------------------------------------------------
(* C5 *)

IsUndecodable(e) ==
    e.api \in ExecApis /\ e.op.command \in {"Unknown", "Invalid"}

\* what the claim says the call leaves behind
FatalAndUntouched(e) ==
    /\ e.post.fatal_error
    /\ e.post.ip = e.pre.ip
    /\ SameButIp(e)
    /\ e.post.instruction_count = e.pre.instruction_count

---------------------------------------------------------------------------
(* C6 *)

\* C6: execute_frame and execute_instructions never return between two
\* iterations of one REP instruction: never with IP rewound to the
\* instruction and CX strictly between 0 and its starting value.
C6_RepAtomicToHost ==
    (JustReturned /\ call.executed > 0)
    => ~(/\ rep.active
         /\ cpu.ip = rep.start.ip
         /\ 0 < get_r16(cpu, "CX")
         /\ get_r16(cpu, "CX") < rep.n)

---------------------------------------------------------------------------
(* C7 *)

IntVector(e) == read_parameter_value(e.pre, e.op.dst) % 256

IsUntrappedInt(e) ==
    /\ e.api \in ExecApis /\ ~e.pre.fatal_error
    /\ e.op.command = "Int" /\ IntVector(e) \notin TrappedVectors

\* C7: INT imm8 for a vector outside 03, 10, 16, 1A, 20, 21, 33 pushes FLAGS,
\* CS and the return IP (SP drops by 6, CS above IP), clears IF and TF, and
\* loads IP and CS from the words at 0000:vector*4 and 0000:vector*4+2.
C7_UntrappedIntUsesVectorTable ==
    \A e \in Events :
        IsUntrappedInt(e) =>
            LET sp == (get_r16(e.pre, "SP") - 6) % U16
                ss == get_sr(e.pre, "SS")
                v == IntVector(e) * 4
            IN  /\ ~e.post.panicked
                /\ get_r16(e.post, "SP") = sp
                /\ mmu_read_u16(e.post, ss, sp) = (e.pre.ip + e.op.length) % U16
                /\ mmu_read_u16(e.post, ss, (sp + 2) % U16) = get_sr(e.pre, "CS")
                /\ ~e.post.flags.interrupt /\ ~e.post.flags.trap
                /\ e.post.ip = mmu_read_u16(e.pre, 0, v)
                /\ get_sr(e.post, "CS") = mmu_read_u16(e.pre, 0, v + 2)

---------------------------------------------------------------------------
(* C8 *)

\* x as i8
ToI8(x) == IF x % 256 >= 128 THEN (x % 256) - 256 ELSE x % 256

\* the division of e has a zero divisor or a quotient its register cannot hold
IsDivFault(e) ==
    LET ax == get_r16(e.pre, "AX")
        dx == get_r16(e.pre, "DX")
        src == read_parameter_value(e.pre, e.op.dst)
    IN  /\ e.api \in ExecApis /\ ~e.pre.fatal_error
        /\ CASE e.op.command = "Div8" ->
                    src = 0 \/ ax \div src > 255
              [] e.op.command = "Div16" ->
                    src = 0 \/ (dx * U16 + ax) \div src > 65535
              [] e.op.command = "Idiv8" ->
                    \/ ToI8(src) = 0
                    \/ TDiv(ToI16(ax), ToI8(src)) \notin -128 .. 127
              [] e.op.command = "Idiv16" ->
                    \/ ToI16(src) = 0
                    \/ TDiv(ToI16(dx) * U16 + ax, ToI16(src)) \notin -32768 .. 32767
              [] OTHER -> FALSE

\* C8: DIV and IDIV with a zero divisor or a quotient that overflows raise
\* vector 0 instead: they never abort the emulator and never write a
\* (truncated) quotient or remainder into AX or DX.
C8_DivFaultRaisesVector0 ==
    \A e \in Events :
        IsDivFault(e) =>
            /\ ~e.post.panicked
            /\ get_r16(e.post, "AX") = get_r16(e.pre, "AX")
            /\ get_r16(e.post, "DX") = get_r16(e.pre, "DX")

---------------------------------------------------------------------------
(* C9 *)

\* C9: a far CALL pushes CS and then the return IP (SP drops by 4, CS above
\* IP) and loads CS:IP with its target; the RETF that follows restores CS,
\* IP and SP.
C9_FarCallPushesCsIp ==
    /\ \A e \in Events :
          (e.api \in ExecApis /\ e.op.command = "CallFar") =>
              LET sp == (get_r16(e.pre, "SP") - 4) % U16
                  ss == get_sr(e.pre, "SS")
              IN  /\ ~e.post.panicked
                  /\ get_r16(e.post, "SP") = sp
                  /\ mmu_read_u16(e.post, ss, (sp + 2) % U16) = get_sr(e.pre, "CS")
                  /\ mmu_read_u16(e.post, ss, sp) = (e.pre.ip + e.op.length) % U16
                  /\ get_sr(e.post, "CS") = e.op.dst.seg
                  /\ e.post.ip = e.op.dst.imm
    /\ (/\ Len(hist) = 2
        /\ hist[1].op.command = "CallFar" /\ hist[2].op.command = "Retf")
       => /\ get_sr(cpu, "CS") = get_sr(hist[1].pre, "CS")
          /\ cpu.ip = (hist[1].pre.ip + hist[1].op.length) % U16
          /\ get_r16(cpu, "SP") = get_r16(hist[1].pre, "SP")

---------------------------------------------------------------------------
(* C10 *)

\* C10: RET imm16 pops the return address from the old SS:SP first and then
\* adds imm16 to SP (RETF imm16 likewise, popping IP and CS).
C10_RetImmPopsThenAdds ==
    \A e \in Events :
        (/\ e.api \in ExecApis /\ ~e.pre.fatal_error
         /\ e.op.command \in {"Retn", "Retf"} /\ params_count(e.op) = 1) =>
            LET sp == get_r16(e.pre, "SP")
                ss == get_sr(e.pre, "SS")
                popped == IF e.op.command = "Retf" THEN 4 ELSE 2
            IN  /\ ~e.post.panicked
                /\ e.post.ip = mmu_read_u16(e.pre, ss, sp)
                /\ e.op.command = "Retf" =>
                      get_sr(e.post, "CS") = mmu_read_u16(e.pre, ss, (sp + 2) % U16)
                /\ get_r16(e.post, "SP") = (sp + popped + e.op.dst.imm) % U16

---------------------------------------------------------------------------
(* C11 *)

Gen1Api == "g1_execute_instruction"

\* the word at SS:off of c, read as the generation of event e reads it
StackWord(e, c, off) ==
    IF e.api = Gen1Api
    THEN g1_peek_u16_at(c, seg_offs_as_flat(get_sr(c, "SS"), off))
    ELSE mmu_read_u16(c, get_sr(c, "SS"), off)

PushaOrder == <<"AX", "CX", "DX", "BX", "SP", "BP", "SI", "DI">>

\* C11: in both generations PUSHA stores AX, CX, DX, BX, the old SP, BP, SI,
\* DI at descending addresses (SP drops by 16), and a POPA right after it
\* restores the seven registers and leaves SP at its value before the PUSHA.
C11_PushaPopaRoundTrip ==
    /\ \A e \in Events :
          (e.op.command = "Pusha" /\ ~e.pre.fatal_error) =>
              /\ ~e.post.panicked
              /\ get_r16(e.post, "SP") = (get_r16(e.pre, "SP") - 16) % U16
              /\ \A k \in 1 .. 8 :
                    StackWord(e, e.post, (get_r16(e.pre, "SP") - 2 * k) % U16)
                        = get_r16(e.pre, PushaOrder[k])
    /\ (/\ Len(hist) = 2
        /\ hist[1].op.command = "Pusha" /\ hist[2].op.command = "Popa"
        /\ hist[2].pre = hist[1].post)
       => (~cpu.panicked /\ cpu.r16 = hist[1].pre.r16)

---------------------------------------------------------------------------
(* C12 *)

\* n bytes from DS:SI of `pre` are at ES:DI of `post`, and CX, SI, DI of
\* `post` are 0, SI + n, DI + n
MovedBytes(pre, post, n) ==
    /\ get_r16(post, "CX") = 0
    /\ get_r16(post, "SI") = (get_r16(pre, "SI") + n) % U16
    /\ get_r16(post, "DI") = (get_r16(pre, "DI") + n) % U16
    /\ \A i \in 0 .. n - 1 :
          MemRead(post.mem, s_translate(get_sr(pre, "ES"), (get_r16(pre, "DI") + i) % U16))
            = MemRead(pre.mem, s_translate(get_sr(pre, "DS"), (get_r16(pre, "SI") + i) % U16))

\* C12: in both generations REP MOVSB with DF = 0 and CX = n >= 1 copies the
\* n bytes at DS:SI to ES:DI and ends with CX = 0, SI and DI advanced by n.
C12_RepMovsbCopies ==
    /\ \A e \in Events :
          (/\ e.api = Gen1Api /\ e.op.command = "RepMovsb"
           /\ ~e.pre.flags.direction /\ get_r16(e.pre, "CX") >= 1)
          => (~e.post.panicked /\ MovedBytes(e.pre, e.post, get_r16(e.pre, "CX")))
    /\ (/\ rep.done /\ rep.op.repeat = "Rep" /\ rep.op.command = "Movsb"
        /\ ~rep.start.flags.direction /\ rep.n >= 1)
       => MovedBytes(rep.start, cpu, rep.n)

---------------------------------------------------------------------------
(* C13 *)

UsesSI(command) ==
    command \in {"Movsb", "Movsw", "Cmpsw", "Lodsb", "Lodsw", "Outsb", "Outsw"}

UsesDI(command) == command \in {"Movsb", "Movsw", "Cmpsw", "Stosb", "Stosw"}

ElementSize(command) ==
    IF command \in {"Movsb", "Lodsb", "Stosb", "Outsb"} THEN 1 ELSE 2

\* register r of e.pre moved by one element in the direction of DF
Stepped(e, r) ==
    IF e.pre.flags.direction
    THEN (get_r16(e.pre, r) - ElementSize(e.op.command)) % U16
    ELSE (get_r16(e.pre, r) + ElementSize(e.op.command)) % U16

\* C13: one iteration of a string instruction (MOVSB/W, CMPSW, LODSB/W,
\* STOSB/W, OUTSB/W) moves each of SI and DI it addresses memory through by
\* +size (DF = 0) or -size (DF = 1), and leaves the other one unchanged.
C13_StringPointersAdvance ==
    \A e \in Events :
        (/\ e.api \in ExecApis /\ ~e.pre.fatal_error /\ ~e.post.panicked
         /\ e.op.command \in PointerCommands) =>
            /\ get_r16(e.post, "SI") =
                  IF UsesSI(e.op.command) THEN Stepped(e, "SI") ELSE get_r16(e.pre, "SI")
            /\ get_r16(e.post, "DI") =
                  IF UsesDI(e.op.command) THEN Stepped(e, "DI") ELSE get_r16(e.pre, "DI")

---------------------------------------------------------------------------
(* C14 *)

\* the condition under which prefix `mode` repeats, on the state after an iteration
RepeatsAgain(mode, post) ==
    /\ get_r16(post, "CX") # 0
    /\ CASE mode = "Repe" -> post.flags.zero
         [] mode = "Repne" -> ~post.flags.zero
         [] OTHER -> TRUE

RepeatedEvent(e) ==
    /\ e.api \in ExecApis /\ ~e.post.panicked
    /\ e.op.repeat # "None" /\ e.op.command \in PointerCommands

\* the most iterations a run that began with CX = n can take
MostIterations(n) == IF n = 0 THEN 2 ^ 16 ELSE n

\* C14: each iteration of a repeated instruction decrements CX by one; the
\* instruction is repeated (IP back at its own address) iff CX # 0 for REP,
\* CX # 0 and ZF = 1 for REPE, CX # 0 and ZF = 0 for REPNE, and otherwise IP is
\* the address of the next instruction; a run never takes more iterations
\* than its starting CX (65536 for CX = 0).
C14_RepeatCondition ==
    /\ \A e \in Events :
          RepeatedEvent(e) =>
            /\ get_r16(e.post, "CX") = (get_r16(e.pre, "CX") - 1) % U16
            /\ get_sr(e.post, "CS") = get_sr(e.pre, "CS")
            /\ e.post.ip = IF RepeatsAgain(e.op.repeat, e.post)
                           THEN e.pre.ip
                           ELSE (e.pre.ip + e.op.length) % U16
    /\ (rep.active \/ rep.done) =>
          /\ rep.iters <= MostIterations(rep.n)
          /\ rep.active => rep.iters < MostIterations(rep.n)

\* REPE CMPSW entered with ZF = 1 found different words with CX left over and
\* went on to the next instruction
C14_Witness ==
    \E e \in Events :
        /\ RepeatedEvent(e)
        /\ e.op.repeat = "Repe" /\ e.op.command = "Cmpsw"
        /\ e.pre.flags.zero /\ ~e.post.flags.zero
        /\ get_r16(e.post, "CX") # 0
        /\ e.post.ip = (e.pre.ip + 2) % U16

---------------------------------------------------------------------------
(* C15 *)

\* the architectural condition of each conditional jump
JccCondition(command, f) ==
    CASE command = "Ja" -> ~f.carry /\ ~f.zero
      [] command = "Jna" -> f.carry \/ f.zero
      [] command = "Jl" -> f.sign # f.overflow
      [] command = "Jnl" -> f.sign = f.overflow
      [] command = "Jg" -> ~f.zero /\ (f.sign = f.overflow)
      [] command = "Jng" -> f.zero \/ (f.sign # f.overflow)
      [] command = "Jz" -> f.zero
      [] command = "Jnz" -> ~f.zero
      [] command = "Jc" -> f.carry
      [] command = "Jnc" -> ~f.carry
      [] command = "Js" -> f.sign
      [] command = "Jns" -> ~f.sign
      [] command = "Jo" -> f.overflow
      [] command = "Jno" -> ~f.overflow
      [] command = "Jpe" -> f.parity
      [] command = "Jpo" -> ~f.parity

\* C15: a conditional jump branches (IP = target) exactly when its
\* architectural condition holds on the flags, and falls through otherwise.
C15_JccBranchesOnCondition ==
    \A e \in Events :
        (/\ e.api \in ExecApis /\ ~e.post.panicked
         /\ e.op.command \in JccCommands /\ e.op.dst.t = "Imm16") =>
            e.post.ip = IF JccCondition(e.op.command, e.pre.flags)
                        THEN e.op.dst.imm
                        ELSE (e.pre.ip + e.op.length) % U16

---------------------------------------------------------------------------
(* C16 *)

\* the byte at offset off of the code segment
g1_CodeByte(c, off) == g1_peek_u8_at(c, seg_offs_as_flat(get_sr(c, "CS"), off % U16))

\* a byte as a signed displacement
SignExtend8(d) == IF d >= 128 THEN d - 256 ELSE d

\* C16: a Jcc rel8 with displacement byte d at CS:A leaves
\* IP = (A + 2 + sext(d)) mod 2^16 when its condition is met and
\* IP = (A + 2) mod 2^16 otherwise, and changes no register, flag or memory.
C16_ShortJumpTarget ==
    \A e \in Events :
        (e.api = Gen1Api /\ g1_CodeByte(e.pre, e.pre.ip) \in g1_JccOpcodes) =>
            LET A == e.pre.ip
                d == g1_CodeByte(e.pre, A + 1)
                k == g1_JccOf(g1_CodeByte(e.pre, A))
            IN  /\ ~e.post.panicked
                /\ e.post.ip = IF JccTaken(k, e.pre.flags)
                               THEN (A + 2 + SignExtend8(d)) % U16
                               ELSE (A + 2) % U16
                /\ e.post.r16 = e.pre.r16 /\ e.post.sreg16 = e.pre.sreg16
                /\ e.post.flags = e.pre.flags /\ e.post.mem = e.pre.mem

---------------------------------------------------------------------------
(* C17 *)

IsMemOperand(p) ==
    p.t \in {"Ptr8Amode", "Ptr8AmodeS8", "Ptr8AmodeS16",
             "Ptr16Amode", "Ptr16AmodeS8", "Ptr16AmodeS16"}

\* the segment register an operand goes through: the override when there is
\* one, else SS for the BP-based modes and DS for the others
OperandSegment(p) ==
    IF p.seg # "Default" THEN p.seg
    ELSE IF p.amode \in {"BP", "BPSI", "BPDI"} THEN "SS" ELSE "DS"

OperandRead(c, p) ==
    IF p.t \in {"Ptr8Amode", "Ptr8AmodeS8", "Ptr8AmodeS16"}
    THEN mmu_read_u8(c, get_sr(c, OperandSegment(p)), AmodeOffset(c, p))
    ELSE mmu_read_u16(c, get_sr(c, OperandSegment(p)), AmodeOffset(c, p))

MovEvent(e) ==
    /\ e.api \in ExecApis /\ ~e.post.panicked
    /\ e.op.command \in {"Mov8", "Mov16"}

\* C17: a MOV to or from a memory operand goes through SS when the
\* addressing mode is BP-based and there is no override, through DS for the
\* other modes without override, and through the override segment otherwise.
C17_DefaultSegment ==
    \A e \in Events :
        MovEvent(e) =>
            /\ IsMemOperand(e.op.src) =>
                  read_parameter_value(e.post, e.op.dst) = OperandRead(e.pre, e.op.src)
            /\ IsMemOperand(e.op.dst) =>
                  OperandRead(e.post, e.op.dst) = read_parameter_value(e.pre, e.op.src)

---------------------------------------------------------------------------
(* C18 *)

g1_IsMem(p) == p.t \in {"Ptr8", "Ptr8Amode", "Ptr8AmodeS8", "Ptr8AmodeS16"}

\* the offset of a second generation operand inside its segment
EffectiveOffset(c, p) == (amode16(c, p.amode) + p.imm) % U16

\* C18: the offset of an indirect operand is (register sum + sign-extended
\* displacement) mod 2^16, taken before the segment is applied: MOV [m],r8
\* stores there, MOV r8,[m] loads from there, and ADD [m],r8 reads and writes
\* that one address.
C18_OperandOffsetWraps ==
    \A e \in Events :
        /\ (e.api = Gen1Api /\ e.op.command \in {"Mov8", "Add8"}) =>
              /\ ~e.post.panicked
              /\ (e.op.command = "Mov8" /\ g1_IsMem(e.op.dst)) =>
                    g1_peek_u8_at(e.post, g1_Linear(e.pre, e.op.dst))
                        = g1_get_r8(e.pre, e.op.src.r)
              /\ (e.op.command = "Mov8" /\ g1_IsMem(e.op.src)) =>
                    g1_get_r8(e.post, e.op.dst.r)
                        = g1_peek_u8_at(e.pre, g1_Linear(e.pre, e.op.src))
              /\ (e.op.command = "Add8" /\ g1_IsMem(e.op.dst)) =>
                    g1_peek_u8_at(e.post, g1_Linear(e.pre, e.op.dst))
                        = ((g1_peek_u8_at(e.pre, g1_Linear(e.pre, e.op.dst))
                            + g1_get_r8(e.pre, e.op.src.r)) % 256)
        /\ (MovEvent(e) /\ e.op.command = "Mov8") =>
              /\ IsMemOperand(e.op.dst) =>
                    mmu_read_u8(e.post, segment(e.pre, e.op.dst.seg),
                                EffectiveOffset(e.pre, e.op.dst))
                        = get_r8(e.pre, e.op.src.r)
              /\ IsMemOperand(e.op.src) =>
                    get_r8(e.post, e.op.dst.r)
                        = mmu_read_u8(e.pre, segment(e.pre, e.op.src.seg),
                                      EffectiveOffset(e.pre, e.op.src))

---------------------------------------------------------------------------
(* C19 *)

\* the linear address of seg:off, inside the 1 MiB of memory
g1_Linear20(seg, off) == ((seg * 16) + (off % U16)) % memory_len

\* the word whose low byte is at seg:off and whose high byte is at the next
\* offset of the same segment
g1_WordAt(c, seg, off) ==
    g1_peek_u8_at(c, g1_Linear20(seg, off)) + (256 * g1_peek_u8_at(c, g1_Linear20(seg, off + 1)))

\* C19: a word pushed or popped at SS:SP has its low byte at SS:SP and its
\* high byte at SS:((SP + 1) mod 2^16), both inside 0..0xFFFFF, also when
\* SP = 0xFFFF or the low byte is at linear 0xFFFFF; no byte outside
\* 0..0xFFFFF is written.
C19_WordWrapsInSegment ==
    \A e \in Events :
        /\ (e.api = Gen1Api /\ e.op.command = "Push16") =>
              /\ ~e.post.panicked
              /\ g1_WordAt(e.post, get_sr(e.pre, "SS"), get_r16(e.pre, "SP") - 2)
                    = get_r16(e.pre, g1_R16Names[1 + e.op.dst.r])
              /\ \A a \in DOMAIN e.post.mem : a < memory_len
        /\ (e.api = Gen1Api /\ e.op.command = "Pop16") =>
              /\ ~e.post.panicked
              /\ get_r16(e.post, g1_R16Names[1 + e.op.dst.r])
                    = g1_WordAt(e.pre, get_sr(e.pre, "SS"), get_r16(e.pre, "SP"))

---------------------------------------------------------------------------
(* C20 *)

\* C20: decoding the bytes Encoder::encode produces for a Mov8 between a
\* register and an immediate, a register or a memory operand (any addressing
\* mode, displacement and segment field), or for an Int imm8, gives back the
\* encoded instruction and consumes exactly the encoded bytes.
C20_EncodeDecodeRoundTrip ==
    \A e \in Events :
        e.api = "assert_encdec" =>
            /\ ~e.post.panicked
            /\ e.op.command = code[0].command
            /\ e.op.dst = code[0].dst
            /\ e.op.src = code[0].src
            /\ e.op.length = Len(encode(code[0]).out)

---------------------------------------------------------------------------
(* C21 *)

DisasmApis == {"g1_disasm_instruction", "g1_disassemble_block"}

\* the number of segment prefix bytes at offset off of the code segment
RECURSIVE g1_PrefixCount(_, _)
g1_PrefixCount(c, off) ==
    IF g1_CodeByte(c, off) \in g1_SegmentPrefixes THEN 1 + g1_PrefixCount(c, off + 1) ELSE 0

\* the bytes an operand adds after the ModRM byte
DispBytes(p) ==
    CASE p.t \in {"Ptr8", "Ptr8AmodeS16"} -> 2
      [] p.t = "Ptr8AmodeS8" -> 1
      [] OTHER -> 0

\* the encoded length of a decoded instruction without its prefixes
BodyLength(op) ==
    CASE op.command \in {"Nop", "Pusha", "Popa", "Push16", "Pop16", "Unknown"} -> 1
      [] op.command \in {"In8", "Out8"} ->
            IF op.dst.t = "Imm8" \/ op.src.t = "Imm8" THEN 2 ELSE 1
      [] op.command \in JccCommands \cup {"Int", "RepMovsb", "RepMovsw", "RepStosb",
                                          "RepStosw", "RepOutsb"} -> 2
      [] op.command = "Mov8" /\ op.src.t = "Imm8" -> 2
      [] OTHER -> 2 + DispBytes(op.dst) + DispBytes(op.src)

\* C21: disasm_instruction and disassemble_block return with the whole CPU
\* state (IP, registers, flags, memory, fatal_error) as it was, and the
\* length disasm_instruction reports is the number of bytes of the
\* instruction, prefixes included.
C21_DisasmIsPure ==
    \A e \in Events :
        e.api \in DisasmApis =>
            /\ e.post = e.pre
            /\ e.api = "g1_disasm_instruction" =>
                  LET n == g1_PrefixCount(e.pre, e.pre.ip)
                  IN  e.op.length =
                        IF g1_CodeByte(e.pre, e.pre.ip + n) \in {242, 243}
                        THEN n + 2 ELSE n + BodyLength(e.op)

---------------------------------------------------------------------------
(* C22 *)

\* the offset of the first byte at or after off that is not a prefix
RECURSIVE SkipPrefixes(_, _)
SkipPrefixes(c, off) ==
    IF g1_CodeByte(c, off) \in PrefixBytes THEN SkipPrefixes(c, off + 1) ELSE off

SegmentOf(b) ==
    CASE b = 38 -> "ES" [] b = 46 -> "CS" [] b = 54 -> "SS"
      [] b = 62 -> "DS" [] b = 100 -> "FS" [] b = 101 -> "GS"

\* the last segment override among the prefixes from off on, cur if none
RECURSIVE LastOverride(_, _, _)
LastOverride(c, off, cur) ==
    LET b == g1_CodeByte(c, off)
    IN  IF b \notin PrefixBytes THEN cur
        ELSE LastOverride(c, off + 1, IF b \in g1_SegmentPrefixes THEN SegmentOf(b) ELSE cur)

\* C22: prefix bytes in any number and order in front of a decodable opcode
\* (here NOP and MOV r/m8,r8) decode to that opcode, never to Unknown, with
\* the last segment override recorded on the instruction.
C22_PrefixesAccepted ==
    \A e \in Events :
        e.api = "g1_disasm_instruction" =>
            LET at == SkipPrefixes(e.pre, e.pre.ip)
                b == g1_CodeByte(e.pre, at)
            IN  (at > e.pre.ip /\ b \in {144, 136}) =>
                    /\ e.op.command = IF b = 144 THEN "Nop" ELSE "Mov8"
                    /\ e.op.segment_prefix = LastOverride(e.pre, e.pre.ip, "Default")
                    /\ e.op.length = (at - e.pre.ip) + (IF b = 144 THEN 1 ELSE 2)

---------------------------------------------------------------------------
(* C23 *)

IsStub(e) ==
    /\ e.api \in ExecApis
    /\ e.op.command \in StubCommands
    /\ e.op.repeat = "None"
    /\ ~e.post.panicked

\* C23: an instruction with a known but unimplemented opcode tag and no
\* repeat prefix, once executed, has advanced IP by its length and
\* instruction_count by one, has not set fatal_error, and has left every
\* register, segment register, flag and memory byte as it was.
C23_UnimplementedIsSkipped ==
    \A e \in Events :
        IsStub(e) =>
            /\ e.post.ip = (e.pre.ip + e.op.length) % U16
            /\ e.post.instruction_count = e.pre.instruction_count + 1
            /\ e.post.fatal_error = e.pre.fatal_error
            /\ SameButIp(e)

\* a four-byte SHLD at offset FFFE was executed with fatal_error clear
C23_Witness ==
    \E e \in Events :
        /\ IsStub(e)
        /\ e.op.command = "Shld" /\ e.op.length = 4
        /\ e.pre.ip = 65534 /\ e.post.ip = 2
        /\ ~e.pre.fatal_error

---------------------------------------------------------------------------
(* C24 *)

\* the call of execute_frame in progress or last returned started within the
\* cycle budget
FrameWithinBudget ==
    call.api = "execute_frame" /\ call.cycles_at_entry <= cycles

\* C24: execute_frame entered with cycle_count <= clock_hz/60 returns after
\* at most clock_hz/60 + 1 instructions (after exactly as many as the budget
\* has left, or earlier on fatal_error); it returns with fatal_error set or
\* with cycle_count reset to 0.
C24_FrameTerminates ==
    /\ [](FrameWithinBudget /\ ~cpu.panicked =>
             /\ call.executed <= cycles + 1
             /\ call.executed >= cycles + 1 - call.cycles_at_entry => call.returned)
    /\ [][(FrameWithinBudget /\ pc = "execute_frame" /\ pc' = "idle") =>
             /\ call'.returned
             /\ cpu'.fatal_error \/ cpu'.cycle_count = 0]_vars

\* a frame entered one cycle short of the budget has returned after two
\* instructions with cycle_count reset and no error
C24_Witness ==
    /\ pc = "idle" /\ call.api = "execute_frame" /\ call.returned
    /\ call.cycles_at_entry = cycles - 1 /\ call.executed = 2
    /\ cpu.cycle_count = 0 /\ ~cpu.fatal_error

---------------------------------------------------------------------------
(* C25 *)

---------------------------------------------------------------------------
(* C26 *)

\* event k of the history is an OUT of a byte to `port`
IsOut(k, port) ==
    /\ k \in 1 .. Len(hist)
    /\ hist[k].api = "g1_out_u8"
    /\ get_r16(hist[k].pre, "DX") = port

OutData(k) == get_r16(hist[k].pre, "AX") % 256

\* the 8-bit channels of the three 6-bit bytes written at k, k+1, k+2
Triple(k) ==
    <<(OutData(k) * 4) % 256, (OutData(k + 1) * 4) % 256, (OutData(k + 2) * 4) % 256>>

\* C26: after a write of index i to port 3C8 and three writes r, g, b to
\* port 3C9, right after the third write palette[i] = (r<<2, g<<2, b<<2)
\* mod 256 and the DAC index is (i+1) mod 256; after three more writes the
\* same holds of palette[i+1] and index i+2.
C26_DacTripleCommits ==
    \A k \in 1 .. Len(hist) :
        /\ (IsOut(k, 968) /\ \A j \in 1 .. 3 : IsOut(k + j, 969)) =>
              LET g == hist[k + 3].post.gpu
              IN  /\ PaletteAt(g, OutData(k)) = Triple(k + 1)
                  /\ g.dac_index = (OutData(k) + 1) % 256
        /\ (IsOut(k, 968) /\ \A j \in 1 .. 6 : IsOut(k + j, 969)) =>
              LET g == hist[k + 6].post.gpu
              IN  /\ PaletteAt(g, (OutData(k) + 1) % 256) = Triple(k + 4)
                  /\ g.dac_index = (OutData(k) + 2) % 256

---------------------------------------------------------------------------
(* C27 *)

\* the last instruction was an IN from port 3DA that read `v` in bit `n`
StatusRead(n, v) ==
    /\ hist # <<>>
    /\ Last.api = "g1_in_port"
    /\ get_r16(Last.pre, "DX") = 986
    /\ Bit(get_r16(Last.post, "AX") % 256, n) = v

---------------------------------------------------------------------------
(* C28 *)

\* the port an IN or OUT instruction addresses
PortOf(e) ==
    read_parameter_value(e.pre, IF e.op.command = "In8" THEN e.op.src ELSE e.op.dst) % U16

IsPortOp(e, command) ==
    /\ e.api \in ExecApis /\ e.op.command = command /\ ~e.post.panicked

\* the scanline and PIT state after the timing tick of one instruction alone
Ticked(c) == timing([c EXCEPT !.cycle_count = @ + 1])

DevicesUntouched(e) ==
    /\ e.post.gpu = e.pre.gpu
    /\ e.post.scanline = Ticked(e.pre).scanline
    /\ e.post.pit_counter0 = Ticked(e.pre).pit_counter0
    /\ e.post.pit_high_next = e.pre.pit_high_next

\* C28: IN from a port with no device returns 0 in AL; OUT of a byte or a
\* word to a port with no device changes no register, flag, memory byte,
\* GPU or PIT state (beyond the timing tick every instruction makes);
\* neither sets fatal_error.
C28_UnmappedPorts ==
    \A e \in Events :
        /\ (IsPortOp(e, "In8") /\ PortOf(e) \notin {2, 64, 65, 66, 96, 986}) =>
              /\ get_r8(e.post, "AL") = 0
              /\ e.post.fatal_error = e.pre.fatal_error
        /\ (\/ IsPortOp(e, "Out8") /\ PortOf(e) \notin {967, 968, 969}
            \/ IsPortOp(e, "Out16") /\ PortOf(e) \notin {964, 980}) =>
              /\ SameButIp(e)
              /\ DevicesUntouched(e)
              /\ e.post.fatal_error = e.pre.fatal_error

\* IN AL,DX from port 1234 overwrote a non-zero AL with 0 on the hundredth
\* cycle
C28_Witness ==
    \E e \in Events :
        /\ IsPortOp(e, "In8") /\ PortOf(e) = 4660
        /\ get_r8(e.pre, "AL") # 0 /\ get_r8(e.post, "AL") = 0
        /\ e.pre.cycle_count = 99 /\ e.post.scanline = 1

---------------------------------------------------------------------------
(* C29 *)

IsEnter(e) == e.api \in ExecApis /\ e.op.command = "Enter"

\* the last two instructions were an ENTER and the LEAVE right after it
IsEnterLeave ==
    /\ Len(hist) = 2
    /\ IsEnter(hist[1])
    /\ hist[2].api \in ExecApis /\ hist[2].op.command = "Leave"
    /\ hist[2].pre = hist[1].post

\* C29: for every nesting level 0..31, allocation size and initial SP and
\* BP, ENTER completes and the LEAVE right after it leaves SP and BP as they
\* were before the ENTER.
C29_EnterLeaveRestores ==
    /\ \A e \in Events : IsEnter(e) => ~e.post.panicked
    /\ IsEnterLeave =>
          /\ ~hist[2].post.panicked
          /\ get_r16(hist[2].post, "SP") = get_r16(hist[1].pre, "SP")
          /\ get_r16(hist[2].post, "BP") = get_r16(hist[1].pre, "BP")

---------------------------------------------------------------------------
(* C30 *)

IsAdc(e) == e.api \in ExecApis /\ e.op.command \in {"Adc8", "Adc16"} /\ ~e.post.panicked

\* x as a two's complement number of w bits
Signed(x, w) == IF x >= 2 ^ (w - 1) THEN x - (2 ^ w) ELSE x

\* C30: after ADC dst, src with incoming carry c, OF is set iff the signed
\* dst + src + c is outside the signed range of the operand width, and AF
\* is set iff the three-input addition carries out of bit 3.
C30_AdcFlags ==
    \A e \in Events :
        IsAdc(e) =>
            LET w == IF e.op.command = "Adc8" THEN 8 ELSE 16
                dst == read_parameter_value(e.pre, e.op.dst)
                src == read_parameter_value(e.pre, e.op.src)
                c == IF e.pre.flags.carry THEN 1 ELSE 0
                sum == Signed(dst, w) + Signed(src, w) + c
            IN  /\ e.post.flags.overflow <=> (sum >= 2 ^ (w - 1) \/ sum < -(2 ^ (w - 1)))
                /\ e.post.flags.auxiliary_carry <=> ((dst % 16) + (src % 16) + c >= 16)

(* C31 *)

IsNeg(e) == e.api \in ExecApis /\ e.op.command \in {"Neg8", "Neg16"} /\ ~e.post.panicked

\* C31: after NEG the carry flag is set iff the operand was non-zero, and the
\* destination holds (0 - operand) mod 2^width.
C31_NegCarry ==
    \A e \in Events :
        IsNeg(e) =>
            LET w == IF e.op.command = "Neg8" THEN 8 ELSE 16
                operand == read_parameter_value(e.pre, e.op.dst)
            IN  /\ e.post.flags.carry <=> (operand # 0)
                /\ read_parameter_value(e.post, e.op.dst) = (0 - operand) % (2 ^ w)

(* C32 *)

LogicCommands == {"And8", "And16", "Or8", "Or16", "Xor8", "Xor16", "Test8", "Test16"}

IsLogic(e) == e.api \in ExecApis /\ e.op.command \in LogicCommands /\ ~e.post.panicked

\* C32: after AND, OR, XOR and TEST, from every prior flag state, CF and OF
\* are clear; TEST leaves both operands as they were.
C32_LogicClearsCarryOverflow ==
    \A e \in Events :
        IsLogic(e) =>
            /\ ~e.post.flags.carry
            /\ ~e.post.flags.overflow
            /\ e.op.command \in {"Test8", "Test16"} =>
                  /\ read_parameter_value(e.post, e.op.dst)
                        = read_parameter_value(e.pre, e.op.dst)
                  /\ read_parameter_value(e.post, e.op.src)
                        = read_parameter_value(e.pre, e.op.src)

(* C33 *)

IsCmp(e) ==
    e.api \in ExecApis /\ e.op.command \in {"Cmp8", "Cmp16", "Cmpsw"} /\ ~e.post.panicked

\* CF, OF, SF, ZF, AF and PF of a flags record
StatusOf(f) == <<f.carry, f.overflow, f.sign, f.zero, f.auxiliary_carry, f.parity>>

\* the destination and source the compare reads: for CMPSW the word at ES:DI
\* (the destination of a string instruction) and the word at DS:SI
CmpDst(e) ==
    IF e.op.command = "Cmpsw"
    THEN mmu_read_u16(e.pre, get_sr(e.pre, "ES"), get_r16(e.pre, "DI"))
    ELSE read_parameter_value(e.pre, e.op.dst)

CmpSrc(e) ==
    IF e.op.command = "Cmpsw"
    THEN mmu_read_u16(e.pre, segment(e.pre, e.op.segment_prefix), get_r16(e.pre, "SI"))
    ELSE read_parameter_value(e.pre, e.op.src)

\* C33: CMP dst, src (8- and 16-bit, and the compare of CMPSW) leaves the six
\* status flags as SUB dst, src from the same state leaves them, and leaves
\* registers and memory (so the destination operand) as they were; only a
\* repeat prefix in front of CMPSW counts CX down.
C33_CmpIsSubWithoutWriteback ==
    \A e \in Events :
        IsCmp(e) =>
            /\ StatusOf(e.post.flags)
                  = StatusOf(sub(e.pre, e.op, IF e.op.command = "Cmp8" THEN 8 ELSE 16,
                                 CmpDst(e), CmpSrc(e)).flags)
            /\ IF e.op.repeat = "None" THEN e.post.r16 = e.pre.r16
               ELSE [e.post.r16 EXCEPT !["CX"] = e.pre.r16["CX"]] = e.pre.r16
            /\ e.post.mem = e.pre.mem

\* a compare of a memory destination with a borrow: the flags changed and the
\* destination did not
C33_Witness ==
    \E e \in Events :
        /\ IsCmp(e) /\ e.op.command = "Cmp8" /\ e.op.dst.t = "Ptr8"
        /\ CmpDst(e) < CmpSrc(e)
        /\ e.post.flags.carry /\ ~e.pre.flags.carry

(* C34 *)

IsIncDec(e) ==
    /\ e.api \in ExecApis /\ ~e.post.panicked
    /\ e.op.command \in {"Inc8", "Inc16", "Dec8", "Dec16"}

\* C34: INC and DEC leave CF as it was before the instruction, for every
\* operand value, and the operand is one more (one less) modulo the width.
C34_IncDecKeepCarry ==
    \A e \in Events :
        IsIncDec(e) =>
            LET m == IF e.op.command \in {"Inc8", "Dec8"} THEN 256 ELSE U16
                d == IF e.op.command \in {"Inc8", "Inc16"} THEN 1 ELSE -1
            IN  /\ e.post.flags.carry = e.pre.flags.carry
                /\ read_parameter_value(e.post, e.op.dst)
                      = (read_parameter_value(e.pre, e.op.dst) + d) % m

\* the wrap cases: INC of the all-ones memory operand with CF clear, DEC of
\* zero with CF set
C34_Witness ==
    \E e \in Events :
        /\ IsIncDec(e)
        /\ \/ /\ e.op.command = "Inc8" /\ e.op.dst.t = "Ptr8"
              /\ read_parameter_value(e.pre, e.op.dst) = 255
              /\ read_parameter_value(e.post, e.op.dst) = 0 /\ ~e.pre.flags.carry
           \/ /\ e.op.command = "Dec16"
              /\ read_parameter_value(e.pre, e.op.dst) = 0
              /\ read_parameter_value(e.post, e.op.dst) = 65535 /\ e.pre.flags.carry

(* C35 *)

IsExtend(e) ==
    /\ e.api \in ExecApis /\ ~e.post.panicked
    /\ e.op.command \in {"Movzx16", "Movsx16"}

\* C35: MOVZX r16, r/m8 writes the source byte with high byte 00, MOVSX
\* r16, r/m8 writes it with high byte FF iff bit 7 of the source is set;
\* neither changes a flag.
C35_ZeroAndSignExtend ==
    \A e \in Events :
        IsExtend(e) =>
            LET src == read_parameter_value(e.pre, e.op.src)
                high == IF e.op.command = "Movsx16" /\ src >= 128 THEN 255 ELSE 0
            IN  /\ read_parameter_value(e.post, e.op.dst) = high * 256 + src
                /\ e.post.flags = e.pre.flags

(* C36 *)

IsLoadFar(e) ==
    /\ e.api \in ExecApis /\ ~e.post.panicked
    /\ e.op.command \in {"Lds", "Les"}

\* C36: LDS/LES r16, m leaves in r16 the word at offset m and in DS/ES the
\* word at offset m + 2 of the operand's segment.
C36_LoadFarPointer ==
    \A e \in Events :
        IsLoadFar(e) =>
            LET m == read_parameter_address(e.pre, e.op.src) % U16
                s == segment(e.pre, e.op.src.seg)
            IN  /\ get_r16(e.post, e.op.dst.r) = mmu_read_u16(e.pre, s, m)
                /\ get_sr(e.post, IF e.op.command = "Lds" THEN "DS" ELSE "ES")
                       = mmu_read_u16(e.pre, s, (m + 2) % U16)

(* C37 *)

ShiftOps == {cmd \o w : cmd \in ShiftCommands, w \in {"8", "16"}}

IsShift(e) ==
    /\ e.api \in ExecApis /\ ~e.post.panicked
    /\ e.op.command \in ShiftOps

ShiftKind(e) == CHOOSE cmd \in ShiftCommands : e.op.command \in {cmd \o "8", cmd \o "16"}

ShiftWidth(e) == IF e.op.command = ShiftKind(e) \o "8" THEN 8 ELSE 16

\* the low 5 bits of the count operand
EffectiveCount(e) == read_parameter_value(e.pre, e.op.src) % 32

\* one single-bit shift or rotate of the w-bit value s[1] with carry s[2]
ShiftOnce(k, w, s) ==
    LET v == s[1]
        top == Bit(v, w - 1)
    IN  CASE k = "Shl" -> <<(2 * v) % (2 ^ w), top>>
          [] k = "Shr" -> <<v \div 2, v % 2>>
          [] k = "Sar" -> <<(v \div 2) + top * (2 ^ (w - 1)), v % 2>>
          [] k = "Rol" -> <<((2 * v) % (2 ^ w)) + top, top>>
          [] k = "Ror" -> <<(v \div 2) + (v % 2) * (2 ^ (w - 1)), v % 2>>
          [] k = "Rcl" -> <<((2 * v) % (2 ^ w)) + s[2], top>>
          [] k = "Rcr" -> <<(v \div 2) + s[2] * (2 ^ (w - 1)), v % 2>>

RECURSIVE Shifted(_, _, _, _)
Shifted(k, w, s, n) == IF n = 0 THEN s ELSE Shifted(k, w, ShiftOnce(k, w, s), n - 1)

\* C37: a shift or rotate acts with the low 5 bits of its count operand:
\* the destination is the operand moved by that many single-bit steps, and
\* with an effective count of 0 the destination and every flag are unchanged.
C37_EffectiveCount ==
    \A e \in Events :
        IsShift(e) =>
            /\ read_parameter_value(e.post, e.op.dst)
                   = Shifted(ShiftKind(e), ShiftWidth(e),
                             <<read_parameter_value(e.pre, e.op.dst),
                               carry_val(e.pre.flags)>>, EffectiveCount(e))[1]
            /\ EffectiveCount(e) = 0 => e.post.flags = e.pre.flags

(* C38 *)

\* C38: SHL, SHR and SAR by n with 1 <= n <= width leave in CF the last bit
\* shifted out (bit width-n for SHL, bit n-1 for SHR and SAR); for n = 1 OF
\* is the sign change (SHL), the top bit of the original (SHR), 0 (SAR).
C38_ShiftCarryOverflow ==
    \A e \in Events :
        (IsShift(e) /\ ShiftKind(e) \in {"Shl", "Shr", "Sar"}) =>
            LET w == ShiftWidth(e)
                n == read_parameter_value(e.pre, e.op.src)
                dst == read_parameter_value(e.pre, e.op.dst)
            IN  (1 <= n /\ n <= w) =>
                    /\ carry_val(e.post.flags)
                           = IF ShiftKind(e) = "Shl" THEN Bit(dst, w - n)
                             ELSE Bit(dst, n - 1)
                    /\ n = 1 =>
                           e.post.flags.overflow
                               = CASE ShiftKind(e) = "Shl" ->
                                        Bit(dst, w - 1) # Bit(dst, w - 2)
                                   [] ShiftKind(e) = "Shr" -> Bit(dst, w - 1) = 1
                                   [] ShiftKind(e) = "Sar" -> FALSE

(* C39 *)

IsDaa(e) == e.api \in ExecApis /\ ~e.post.panicked /\ e.op.command = "Daa"

\* Intel's DAA: AL, CF and AF after the adjustment of al with flags cf, af
IntelDaa(al, cf, af) ==
    LET low == (al % 16) > 9 \/ af
        al1 == IF low THEN (al + 6) % 256 ELSE al
        high == al > 153 \/ cf
    IN  [al |-> IF high THEN (al1 + 96) % 256 ELSE al1, cf |-> high, af |-> low]

\* the value of a packed-BCD byte
BcdValue(b) == 10 * (b \div 16) + (b % 16)

IsBcd(b) == (b \div 16) <= 9 /\ (b % 16) <= 9

\* C39: DAA leaves AL, CF and AF as Intel's pseudocode gives them for every
\* AL, CF and AF; after ADD of two packed-BCD bytes it leaves the packed-BCD
\* sum in AL and the decimal carry in CF.
C39_DaaFollowsIntel ==
    /\ \A e \in Events :
          IsDaa(e) =>
              LET r == IntelDaa(get_r8(e.pre, "AL"), e.pre.flags.carry,
                                e.pre.flags.auxiliary_carry)
              IN  /\ get_r8(e.post, "AL") = r.al
                  /\ e.post.flags.carry = r.cf
                  /\ e.post.flags.auxiliary_carry = r.af
    /\ (Len(hist) = 2 /\ hist[1].op.command = "Add8" /\ IsDaa(hist[2])
          /\ hist[2].pre = hist[1].post) =>
          LET a == read_parameter_value(hist[1].pre, hist[1].op.dst)
              b == read_parameter_value(hist[1].pre, hist[1].op.src)
              al == get_r8(hist[2].post, "AL")
          IN  (IsBcd(a) /\ IsBcd(b)) =>
                  /\ IsBcd(al)
                  /\ BcdValue(al) = (BcdValue(a) + BcdValue(b)) % 100
                  /\ hist[2].post.flags.carry = (BcdValue(a) + BcdValue(b) >= 100)

(* C40 *)

IsRetn(e) == e.api \in ExecApis /\ ~e.post.panicked /\ e.op.command = "Retn"

\* SP after the imm16 adjustment of a near return, before the pop
RetnSp(e) ==
    IF params_count(e.op) = 1
    THEN (get_r16(e.pre, "SP") + read_parameter_value(e.pre, e.op.dst)) % U16
    ELSE get_r16(e.pre, "SP")

CallThenRet ==
    /\ Len(hist) = 2
    /\ hist[1].api \in ExecApis /\ hist[1].op.command = "CallNear"
    /\ IsRetn(hist[2]) /\ params_count(hist[2].op) = 0
    /\ hist[2].pre = hist[1].post

\* C40: a near RET sets fatal_error exactly when SP, after any imm16
\* adjustment, is 0xFFFE just before the pop, and still pops IP; a near CALL
\* made with SP = 0 followed by its RET returns to the instruction after the
\* CALL, restores SP and sets fatal_error.
C40_RetnEndOfStack ==
    /\ \A e \in Events :
          IsRetn(e) =>
              /\ e.post.fatal_error = (e.pre.fatal_error \/ RetnSp(e) = 65534)
              /\ e.post.ip = mmu_read_u16(e.pre, get_sr(e.pre, "SS"), RetnSp(e))
              /\ get_r16(e.post, "SP") = (RetnSp(e) + 2) % U16
    /\ (CallThenRet /\ get_r16(hist[1].pre, "SP") = 0) =>
          /\ hist[2].post.ip = (hist[1].pre.ip + hist[1].op.length) % U16
          /\ get_r16(hist[2].post, "SP") = 0
          /\ hist[2].post.fatal_error

\* a CALL made with SP = 0 and fatal_error clear was followed by its RET
C40_Witness ==
    /\ CallThenRet /\ get_r16(hist[1].pre, "SP") = 0
    /\ ~hist[1].pre.fatal_error /\ cpu.fatal_error

====
